---- MODULE Spec2Model ----
(***************************************************************************)
(* A model of vault-copy's synchronization engine: SyncManager.Sync with   *)
(* its three modes (single secret, directory, wildcard), the recursive     *)
(* enumeration Client.GetAllSecrets / walkSecrets, and the producer /      *)
(* worker pipeline of syncDirectory and syncMultiplePaths.                 *)
(*                                                                         *)
(* Strings are sequences of one-character strings, so that the string      *)
(* functions the code uses (TrimPrefix, HasPrefix, TrimSuffix, Split,      *)
(* Join, Contains) are computed as the Go library computes them.           *)
(***************************************************************************)
EXTENDS Integers, Sequences, FiniteSets, Bags, TLC

(***************************************************************************)
(* Bounds of the model.                                                    *)
(***************************************************************************)
\* The largest configured parallelism (config.ParallelWorkers ranges over 1..MaxWorkers).
MaxWorkers == 2

\* The largest number of store calls that fail in one run.
MaxFaults == 2

(***************************************************************************)
(* Program constants.                                                      *)
(***************************************************************************)
\* make(chan *Secret, 100) in GetAllSecrets
WalkerChanCap == 100

\* make(chan error, 1) in GetAllSecrets
WalkerErrCap == 1

\* make(chan *vault.Secret, m.config.ParallelWorkers*2)
ChanFactor == 2

(***************************************************************************)
(* Go's strings package on sequences of characters.                        *)
(***************************************************************************)
\* strings.HasPrefix(s, prefix)
HasPrefix(s, prefix) ==
    /\ Len(prefix) <= Len(s)
    /\ SubSeq(s, 1, Len(prefix)) = prefix

\* strings.HasSuffix(s, suffix)
HasSuffix(s, suffix) ==
    /\ Len(suffix) <= Len(s)
    /\ SubSeq(s, Len(s) - Len(suffix) + 1, Len(s)) = suffix

\* strings.TrimPrefix(s, prefix): s without the prefix when it has it, else s
TrimPrefix(s, prefix) ==
    IF HasPrefix(s, prefix) THEN SubSeq(s, Len(prefix) + 1, Len(s)) ELSE s

\* strings.TrimSuffix(s, suffix): s without the suffix when it has it, else s
TrimSuffix(s, suffix) ==
    IF HasSuffix(s, suffix) THEN SubSeq(s, 1, Len(s) - Len(suffix)) ELSE s

\* strings.Contains(s, sub)
Contains(s, sub) ==
    \E i \in 1..(Len(s) - Len(sub) + 1) : SubSeq(s, i, i + Len(sub) - 1) = sub

\* strings.Split(s, "/"): the segments between the separators (never empty)
RECURSIVE SplitFrom(_, _, _)
SplitFrom(s, i, cur) ==
    IF i > Len(s) THEN <<cur>>
    ELSE IF s[i] = "/" THEN <<cur>> \o SplitFrom(s, i + 1, <<>>)
    ELSE SplitFrom(s, i + 1, Append(cur, s[i]))

Split(s) == SplitFrom(s, 1, <<>>)

\* strings.Join(parts, "/")
RECURSIVE Join(_)
Join(parts) ==
    IF Len(parts) = 0 THEN <<>>
    ELSE IF Len(parts) = 1 THEN parts[1]
    ELSE parts[1] \o <<"/">> \o Join(Tail(parts))

\* buildPath(base, item) of the reader
buildPath(base, item) ==
    IF HasSuffix(base, <<"/">>) THEN base \o item ELSE base \o <<"/">> \o item

(***************************************************************************)
(* The stores.  A store maps the paths that hold a value to their data and *)
(* the paths that can be listed to the names of their children.            *)
(***************************************************************************)
\* a nested tree: s -> {a, d}, s/d -> {b}
StoreNested ==
    [secrets |-> (<<"s", "/", "a">> :> "va") @@ (<<"s", "/", "d", "/", "b">> :> "vb"),
     lists   |-> (<<"s">> :> << <<"a">>, <<"d">> >>) @@ (<<"s", "/", "d">> :> << <<"b">> >>)]

\* a flat tree with four leaves: s -> {a, b, c, e}
StoreFlat ==
    [secrets |-> (<<"s", "/", "a">> :> "va") @@ (<<"s", "/", "b">> :> "vb")
                 @@ (<<"s", "/", "c">> :> "vc") @@ (<<"s", "/", "e">> :> "ve"),
     lists   |-> (<<"s">> :> << <<"a">>, <<"b">>, <<"c">>, <<"e">> >>)]

\* a tree where s/a holds a value and has the child b: s -> {a}, s/a -> {b}
StoreBoth ==
    [secrets |-> (<<"s", "/", "a">> :> "va") @@ (<<"s", "/", "a", "/", "b">> :> "vb"),
     lists   |-> (<<"s">> :> << <<"a">> >>) @@ (<<"s", "/", "a">> :> << <<"b">> >>)]

\* siblings that are all leaves: s -> {db, pg, pgq, c}
StoreSiblings ==
    [secrets |-> (<<"s", "/", "d", "b">> :> "v1") @@ (<<"s", "/", "p", "g">> :> "v2")
                 @@ (<<"s", "/", "p", "g", "q">> :> "v3") @@ (<<"s", "/", "c">> :> "v4"),
     lists   |-> (<<"s">> :> << <<"d", "b">>, <<"p", "g">>, <<"p", "g", "q">>, <<"c">> >>)]

\* two directories with one leaf each: s -> {d, e}, s/d -> {b}, s/e -> {c}
StoreTwoDirs ==
    [secrets |-> (<<"s", "/", "d", "/", "b">> :> "vb") @@ (<<"s", "/", "e", "/", "c">> :> "vc"),
     lists   |-> (<<"s">> :> << <<"d">>, <<"e">> >>) @@ (<<"s", "/", "d">> :> << <<"b">> >>)
                 @@ (<<"s", "/", "e">> :> << <<"c">> >>)]

\* Logical().List answers with data: the path has children
HasListing(store, path) == path \in DOMAIN store.lists

\* Logical().Read answers with a secret: the path holds a value
HasSecret(store, path) == path \in DOMAIN store.secrets

\* ListSecrets(path) when the call succeeds
ListSecrets(store, path) ==
    IF HasListing(store, path) THEN store.lists[path] ELSE <<>>

\* a variant that keeps the value of a path that already holds one
WriteSecret_IfAbsent(secrets, path, data) ==
    IF path \in DOMAIN secrets THEN secrets ELSE (path :> data) @@ secrets

\* the secrets of a store after WriteSecret(path, data) succeeded
WriteSecret(secrets, path, data) == (path :> data) @@ secrets

\* the Secret that ReadSecret(path) returns when the call succeeds
Secret(store, path) == [Path |-> path, Data |-> store.secrets[path]]

(***************************************************************************)
(* Client.GetAllSecrets seen as a function (used by getAllPathsUnder with  *)
(* a background context): the paths that walkSecrets reads under a root.   *)
(***************************************************************************)
RECURSIVE WalkLeaves(_, _)
WalkLeaves(store, path) ==
    IF HasListing(store, path)
    THEN UNION { WalkLeaves(store, buildPath(path, ListSecrets(store, path)[i])) :
                    i \in 1..Len(ListSecrets(store, path)) }
    ELSE {path}

\* the sequences without repetition of the elements of S
Orderings(S) ==
    { o \in [1..Cardinality(S) -> S] : \A i, j \in 1..Cardinality(S) : o[i] = o[j] => i = j }

\* one outcome of a call that returns ([]string, error): failed tells whether
\* a store call failed while it was computed
Outcome(paths, err, failed) == [paths |-> paths, err |-> err, failed |-> failed]

ErrOutcome == Outcome(<<>>, TRUE, TRUE)

\* getAllPathsUnder(rootPath): the walk emits every path it reads, in the
\* order its tasks are scheduled, and closes the error channel before the
\* secrets channel; the collecting select leaves at "done" as soon as it
\* takes the closed error channel, with the paths received so far.
\* A path that holds no value makes ReadSecret fail, which ends the call
\* with that error; so does a failing store call.
getAllPathsUnder(store, rootPath, fail) ==
    LET leaves == WalkLeaves(store, rootPath)
    IN  (IF \A p \in leaves : HasSecret(store, p)
         THEN { Outcome(SubSeq(o, 1, k), FALSE, FALSE) :
                    o \in Orderings(leaves), k \in 0..Cardinality(leaves) }
         ELSE { Outcome(<<>>, TRUE, FALSE) })
        \cup (IF fail THEN {ErrOutcome} ELSE {})

\* filepath.Match(pattern, name) for patterns made of literal characters and '*'
RECURSIVE Match(_, _)
Match(pattern, name) ==
    IF pattern = <<>> THEN name = <<>>
    ELSE IF pattern[1] = "*"
    THEN \E k \in 0..Len(name) :
            /\ \A i \in 1..k : name[i] # "/"
            /\ Match(Tail(pattern), SubSeq(name, k + 1, Len(name)))
    ELSE /\ name # <<>>
         /\ name[1] = pattern[1]
         /\ Match(Tail(pattern), Tail(name))

\* the index of the first part that contains '*', 0 when there is none
WildcardIndex(parts) ==
    IF \E i \in 1..Len(parts) : Contains(parts[i], <<"*">>)
    THEN CHOOSE i \in 1..Len(parts) :
            /\ Contains(parts[i], <<"*">>)
            /\ \A j \in 1..(i - 1) : ~Contains(parts[j], <<"*">>)
    ELSE 0

\* the outcomes of handling the items one after the other, appending what
\* each gives and returning at the first error
RECURSIVE AppendEach(_, _, _, _)
AppendEach(One(_, _), items, i, fail) ==
    IF i > Len(items) THEN { Outcome(<<>>, FALSE, FALSE) }
    ELSE UNION {
            IF f.err THEN {f}
            ELSE { IF r.err THEN Outcome(<<>>, TRUE, f.failed \/ r.failed)
                   ELSE Outcome(f.paths \o r.paths, FALSE, f.failed \/ r.failed) :
                     r \in AppendEach(One, items, i + 1, fail /\ ~f.failed) } :
            f \in One(items[i], fail) }

RECURSIVE expandPathWithRest(_, _, _, _)
RECURSIVE expandNestedWildcard(_, _, _, _)

\* expandPathWithRest(basePath, restPattern)
expandPathWithRest(store, basePath, restPattern, fail) ==
    IF Contains(restPattern, <<"*", "*">>) THEN getAllPathsUnder(store, basePath, fail)
    ELSE IF Contains(Split(restPattern)[1], <<"*">>)
    THEN expandNestedWildcard(store, basePath, restPattern, fail)
    ELSE LET fullPath == basePath \o <<"/">> \o restPattern
         IN  (IF HasListing(store, fullPath)
              THEN getAllPathsUnder(store, fullPath, fail)
              ELSE { Outcome(<<fullPath>>, FALSE, FALSE) })
             \* a failing IsDirectory is swallowed: "Path doesn't exist, return empty"
             \cup (IF fail THEN { Outcome(<<>>, FALSE, TRUE) } ELSE {})

\* expandNestedWildcard(basePath, pattern)
expandNestedWildcard(store, basePath, pattern, fail) ==
    LET parts == Split(pattern)
        One(item, f) ==
            IF ~Match(parts[1], item) THEN { Outcome(<<>>, FALSE, FALSE) }
            ELSE LET fullPath == basePath \o <<"/">> \o item
                 IN  IF Len(parts) > 1
                     THEN expandPathWithRest(store, fullPath, Join(Tail(parts)), f)
                     ELSE (IF HasListing(store, fullPath)
                           THEN getAllPathsUnder(store, fullPath, f)
                           ELSE { Outcome(<<fullPath>>, FALSE, FALSE) })
                          \cup (IF f THEN {ErrOutcome} ELSE {})
    IN  AppendEach(One, ListSecrets(store, basePath), 1, fail)
        \cup (IF fail THEN {ErrOutcome} ELSE {})

\* MockClient.ExpandWildcardPath(pattern)
MockExpandWildcardPath(pattern) ==
    IF ~Contains(pattern, <<"*">>) THEN { Outcome(<<pattern>>, FALSE, FALSE) }
    ELSE { Outcome(<<pattern>>, FALSE, FALSE) }

\* an expansion that gives the pattern back unexpanded
ExpandWildcardPath_Unexpanded(store, pattern, fail) ==
    { Outcome(<<pattern>>, FALSE, FALSE) }

\* Client.ExpandWildcardPath(pattern): the set of its possible outcomes;
\* fail tells whether one of its store calls may fail
ExpandWildcardPath(store, pattern, fail) ==
    IF ~Contains(pattern, <<"*">>) THEN { Outcome(<<pattern>>, FALSE, FALSE) }
    ELSE LET parts         == Split(pattern)
             wildcardIndex == WildcardIndex(parts)
             joined        == Join(SubSeq(parts, 1, wildcardIndex - 1))
             basePath      == IF joined = <<>> THEN <<"/">> ELSE joined
             rest          == SubSeq(parts, wildcardIndex + 1, Len(parts))
             One(item, f) ==
                 IF ~Match(parts[wildcardIndex], item) THEN { Outcome(<<>>, FALSE, FALSE) }
                 ELSE LET fullPath == IF basePath = <<"/">> THEN item
                                      ELSE basePath \o <<"/">> \o item
                      IN  (IF wildcardIndex < Len(parts)
                           THEN expandPathWithRest(store, fullPath, Join(rest), f)
                           ELSE IF HasListing(store, fullPath)
                           THEN getAllPathsUnder(store, fullPath, f)
                           ELSE { Outcome(<<fullPath>>, FALSE, FALSE) })
                          \cup (IF f THEN {ErrOutcome} ELSE {})
         IN  AppendEach(One, ListSecrets(store, basePath), 1, fail)
             \cup (IF fail THEN {ErrOutcome} ELSE {})

(***************************************************************************)
(* The state of one run of SyncManager.Sync.                               *)
(***************************************************************************)
VARIABLES
    cfg,            \* config.Config: SourcePath, DestinationPath, Recursive, DryRun, Overwrite, ParallelWorkers
    source,         \* the source store
    dest0,          \* the destination store's secrets before the run
    dest,           \* the destination store's secrets
    destWrites,     \* the paths WriteSecret was called with on the destination
    destChecks,     \* the paths SecretExists was called with on the destination
    failures,       \* the number of store calls that failed so far
    ctxDone,        \* the context passed to Sync is cancelled
    stats,          \* SyncStats
    main,           \* the task that called Sync: where it is, the mode it chose
    ret,            \* what Sync returned: "none" yet, "stats" (stats, nil), "error" (nil, err)
    paths,          \* expandedPaths, the argument of syncMultiplePaths
    secretsChan,    \* the engine's transfer channel
    errChan,        \* the engine's error channel
    prod,           \* the producer goroutine
    workers,        \* the writeWorker goroutines
    closer,         \* the goroutine that waits for both wait groups and closes errChan
    sourceSecrets,  \* the secrets channel GetAllSecrets returned
    sourceErrChan,  \* the error channel GetAllSecrets returned
    walkRoot,       \* the goroutine GetAllSecrets starts
    walk,           \* the walkSecrets calls, by path
    log,            \* per source path, the outcomes the engine logged for its secret
    calc            \* the last call of a path function made on its own: its input and result

vars == <<cfg, source, dest0, dest, destWrites, destChecks, failures, ctxDone, stats, main, ret, paths,
          secretsChan, errChan, prod, workers, closer, sourceSecrets, sourceErrChan,
          walkRoot, walk, log, calc>>

inputVars  == <<cfg, source, dest0, calc>>
engineVars == <<secretsChan, errChan, prod, workers, closer>>
walkerVars == <<sourceSecrets, sourceErrChan, walkRoot, walk>>

\* a channel: what it buffers and whether it is closed
NewChan == [buf |-> <<>>, closed |-> FALSE]

\* the outcomes of one store call: TRUE it succeeds, FALSE it fails
CallResults == IF failures < MaxFaults THEN {TRUE, FALSE} ELSE {TRUE}

(***************************************************************************)
(* SyncManager.transformPath                                               *)
(***************************************************************************)
\* transformPath with the trailing separator of baseDestPath kept
transformPath_KeepSlash(sourceRoot, sourcePath, baseDestPath) ==
    LET trimmed      == TrimPrefix(sourcePath, sourceRoot)
        relativePath == IF HasPrefix(trimmed, <<"/">>) THEN Tail(trimmed) ELSE trimmed
    IN  IF relativePath # <<>>
        THEN baseDestPath \o <<"/">> \o relativePath
        ELSE baseDestPath

transformPath(sourceRoot, sourcePath, baseDestPath) ==
    LET trimmed      == TrimPrefix(sourcePath, sourceRoot)
        relativePath == IF HasPrefix(trimmed, <<"/">>) THEN Tail(trimmed) ELSE trimmed
    IN  IF relativePath # <<>>
        THEN TrimSuffix(baseDestPath, <<"/">>) \o <<"/">> \o relativePath
        ELSE baseDestPath

\* destPath of a source path under the run's configuration
DestPath(path) == transformPath(cfg.SourcePath, path, cfg.DestinationPath)

(***************************************************************************)
(* The runs the model starts from.                                         *)
(***************************************************************************)
Config(src, rec, dry, ow, n) ==
    [SourcePath |-> src, DestinationPath |-> <<"t">>, Recursive |-> rec,
     DryRun |-> dry, Overwrite |-> ow, ParallelWorkers |-> n]

\* the source paths of the runs: a directory, a single secret, a wildcard
\* pattern that matches a leaf and a directory, a path that holds nothing
\* and a wildcard pattern that matches nothing
Sources ==
    { <<"s">>, <<"s", "/", "a">>, <<"s", "/", "*">>, <<"s", "/", "x">>, <<"s", "/", "x", "*">> }

\* the destination before the run: empty, or holding the secret that s/a is copied to
Dests(c) ==
    { <<>>, transformPath(c.SourcePath, <<"s", "/", "a">>, c.DestinationPath) :> "old" }

\* the runs over a store, from a set of source paths
\* no path function was called on its own
NoCalc == [fn |-> "none"]

\* Sync was not called yet
Idle ==
    /\ dest = dest0
    /\ destWrites = {}
    /\ destChecks = {}
    /\ failures = 0
    /\ ctxDone = FALSE
    /\ stats = [SecretsRead |-> 0, SecretsWritten |-> 0, SecretsSkipped |-> 0, Errors |-> 0]
    /\ main = [pc |-> "Sync", mode |-> "none", err |-> ""]
    /\ ret = "none"
    /\ paths = <<>>
    /\ secretsChan = NewChan
    /\ errChan = NewChan
    /\ prod = [pc |-> "idle", i |-> 0, inWalk |-> FALSE, secret |-> <<>>, err |-> "", exit |-> ""]
    /\ workers = EmptyBag
    /\ closer = "idle"
    /\ sourceSecrets = NewChan
    /\ sourceErrChan = NewChan
    /\ walkRoot = "idle"
    /\ walk = <<>>
    /\ log = <<>>

InitOver(store, sources) ==
    /\ \E s \in sources, rec, dry, ow \in BOOLEAN, n \in 1..MaxWorkers :
          cfg = Config(s, rec, dry, ow, n)
    /\ source = store
    /\ dest0 \in Dests(cfg)
    /\ calc = NoCalc
    /\ Idle

Init == InitOver(StoreNested, Sources)

\* atomic.AddInt64(&stats.<field>, 1)
AddInt64(field) == [stats EXCEPT ![field] = @ + 1]

\* the logged outcomes of a path so far
Logged(path) == IF path \in DOMAIN log THEN log[path] ELSE <<>>

\* the log with one more outcome for the path
LogOutcome(path, what) ==
    [p \in DOMAIN log \cup {path} |-> IF p = path THEN Append(Logged(p), what) ELSE log[p]]

\* a store call fails
Failed == failures' = failures + 1

(***************************************************************************)
(* SyncManager.Sync up to the call of the mode's function.  For the        *)
(* pipeline modes this includes the start of syncDirectory or              *)
(* syncMultiplePaths: the channels and the go statements.                  *)
(***************************************************************************)
StartPipeline(mode, expanded) ==
    /\ main' = [pc |-> "range", mode |-> mode, err |-> ""]
    /\ paths' = expanded
    /\ secretsChan' = NewChan
    /\ errChan' = NewChan
    /\ prod' = [prod EXCEPT !.pc = IF mode = "dir" THEN "start" ELSE "path", !.i = 1]
    /\ workers' = [w \in {[pc |-> "recv", secret |-> <<>>, err |-> ""]} |-> cfg.ParallelWorkers]
    /\ closer' = "wait"
    /\ ret' = ret

\* a variant that hands the statistics back with the failure
ReturnError_WithStats(why) ==
    /\ main' = [main EXCEPT !.pc = "returned", !.err = why]
    /\ ret' = "stats"

\* return nil, fmt.Errorf(...): why names the check that failed
ReturnError(why) ==
    /\ main' = [main EXCEPT !.pc = "returned", !.err = why]
    /\ ret' = "error"

ReturnStats ==
    /\ main' = [main EXCEPT !.pc = "returned"]
    /\ ret' = "stats"

Sync ==
    /\ main.pc = "Sync"
    /\ IF Contains(cfg.SourcePath, <<"*">>)
       THEN \E o \in ExpandWildcardPath(source, cfg.SourcePath, failures < MaxFaults) :
               /\ failures' = IF o.failed THEN failures + 1 ELSE failures
               /\ IF o.err
                  THEN ReturnError("expand") /\ UNCHANGED <<paths, engineVars>>
                  ELSE IF Len(o.paths) = 0
                  THEN ReturnError("nomatch") /\ UNCHANGED <<paths, engineVars>>
                  ELSE StartPipeline("wild", o.paths)
       ELSE \E ok \in CallResults :
               IF ~ok
               THEN Failed /\ ReturnError("isdir") /\ UNCHANGED <<paths, engineVars>>
               ELSE /\ failures' = failures
                    /\ IF HasListing(source, cfg.SourcePath) /\ ~cfg.Recursive
                       THEN ReturnError("norecursive") /\ UNCHANGED <<paths, engineVars>>
                       ELSE IF ~HasListing(source, cfg.SourcePath)
                       THEN /\ main' = [pc |-> "single", mode |-> "single", err |-> ""]
                            /\ UNCHANGED <<ret, paths, engineVars>>
                       ELSE StartPipeline("dir", <<>>)
    /\ UNCHANGED <<inputVars, dest, destWrites, destChecks, ctxDone, stats, walkerVars, log>>

(***************************************************************************)
(* The two decisions syncSingleSecret and writeWorker take on an item      *)
(* whose existence check succeeded.                                        *)
(***************************************************************************)
\* a variant that never skips
SkipExisting_Never(exists) == FALSE

\* a variant that skips whatever the overwrite flag says
SkipExisting_Always(exists) == exists

\* if exists && !m.config.Overwrite
SkipExisting(exists) == exists /\ ~cfg.Overwrite

\* a variant that ignores the dry-run flag
DryRun_Ignored == FALSE

\* if m.config.DryRun
DryRun == cfg.DryRun

(***************************************************************************)
(* SyncManager.syncSingleSecret                                            *)
(***************************************************************************)
syncSingleSecret ==
    /\ main.pc = "single"
    /\ LET path     == cfg.SourcePath
           destPath == DestPath(path)
       IN  \E read \in CallResults :
           IF ~read \/ ~HasSecret(source, path)
           THEN \* ReadSecret failed
                /\ failures' = IF read THEN failures ELSE failures + 1
                /\ ReturnError("read")
                /\ UNCHANGED <<stats, dest, destWrites, destChecks, log>>
           ELSE \E check \in CallResults :
                /\ destChecks' = destChecks \cup {destPath}
                /\ IF ~check
                   THEN \* SecretExists failed
                        /\ Failed
                        /\ stats' = AddInt64("SecretsRead")
                        /\ ReturnError("exists")
                        /\ log' = LogOutcome(path, "checkerr")
                        /\ UNCHANGED <<dest, destWrites>>
                   ELSE IF SkipExisting(destPath \in DOMAIN dest)
                   THEN /\ stats' = [stats EXCEPT !.SecretsRead = @ + 1, !.SecretsSkipped = @ + 1]
                        /\ ReturnStats
                        /\ log' = LogOutcome(path, "skipped")
                        /\ UNCHANGED <<failures, dest, destWrites>>
                   ELSE IF DryRun
                   THEN /\ stats' = [stats EXCEPT !.SecretsRead = @ + 1, !.SecretsWritten = @ + 1]
                        /\ ReturnStats
                        /\ log' = LogOutcome(path, "written")
                        /\ UNCHANGED <<failures, dest, destWrites>>
                   ELSE \E write \in CallResults :
                        /\ destWrites' = destWrites \cup {destPath}
                        /\ IF ~write
                           THEN /\ Failed
                                /\ stats' = [stats EXCEPT !.SecretsRead = @ + 1, !.Errors = @ + 1]
                                /\ ReturnError("write")
                                /\ log' = LogOutcome(path, "writeerr")
                                /\ dest' = dest
                           ELSE /\ failures' = failures
                                /\ dest' = WriteSecret(dest, destPath, Secret(source, path).Data)
                                /\ stats' = [stats EXCEPT !.SecretsRead = @ + 1,
                                                          !.SecretsWritten = @ + 1]
                                /\ ReturnStats
                                /\ log' = LogOutcome(path, "written")
    /\ UNCHANGED <<inputVars, ctxDone, paths, engineVars, walkerVars>>

(***************************************************************************)
(* Client.GetAllSecrets and Client.walkSecrets                             *)
(***************************************************************************)
\* GetAllSecrets(ctx, rootPath): two new channels and the goroutine that walks
GetAllSecrets(rootPath) ==
    /\ sourceSecrets' = NewChan
    /\ sourceErrChan' = NewChan
    /\ walkRoot' = "walk"
    /\ walk' = (rootPath :> [pc |-> "ctx", err |-> "", root |-> TRUE])

\* a walkSecrets call has returned
Returned(b) == walk[b].pc \in {"done", "failed"}

Children(b) == { buildPath(b, ListSecrets(source, b)[i]) : i \in 1..Len(ListSecrets(source, b)) }

\* select { case <-ctx.Done(): errChan <- ctx.Err(); return  default: }
WalkCtx(b) ==
    /\ walk[b].pc = "ctx"
    /\ walk' = [walk EXCEPT ![b] = IF ctxDone THEN [@ EXCEPT !.pc = "errsend", !.err = "cancel"]
                                   ELSE [@ EXCEPT !.pc = "isdir"]]
    /\ UNCHANGED <<inputVars, dest, destWrites, destChecks, failures, ctxDone, stats, main, ret, paths,
                   engineVars, sourceSecrets, sourceErrChan, walkRoot, log>>

\* isDir, err := c.IsDirectory(path)
WalkIsDir(b) ==
    /\ walk[b].pc = "isdir"
    /\ \E ok \in CallResults :
          IF ~ok
          THEN /\ Failed
               /\ walk' = [walk EXCEPT ![b] = [@ EXCEPT !.pc = "errsend", !.err = "isdir"]]
          ELSE /\ failures' = failures
               /\ walk' = [walk EXCEPT ![b].pc = IF HasListing(source, b) THEN "list" ELSE "read"]
    /\ UNCHANGED <<inputVars, dest, destWrites, destChecks, ctxDone, stats, main, ret, paths,
                   engineVars, sourceSecrets, sourceErrChan, walkRoot, log>>

\* items, err := c.ListSecrets(path), then one goroutine per item
WalkList(b) ==
    /\ walk[b].pc = "list"
    /\ \E ok \in CallResults :
          IF ~ok
          THEN /\ Failed
               /\ walk' = [walk EXCEPT ![b] = [@ EXCEPT !.pc = "errsend", !.err = "list"]]
          ELSE /\ failures' = failures
               /\ walk' = [c \in Children(b) |-> [pc |-> "ctx", err |-> "", root |-> FALSE]]
                          @@ [walk EXCEPT ![b].pc = "wait"]
    /\ UNCHANGED <<inputVars, dest, destWrites, destChecks, ctxDone, stats, main, ret, paths,
                   engineVars, sourceSecrets, sourceErrChan, walkRoot, log>>

\* wg.Wait() of a directory's call
WalkWait(b) ==
    /\ walk[b].pc = "wait"
    /\ \A c \in Children(b) : Returned(c)
    /\ walk' = [walk EXCEPT ![b].pc = "done"]
    /\ UNCHANGED <<inputVars, dest, destWrites, destChecks, failures, ctxDone, stats, main, ret, paths,
                   engineVars, sourceSecrets, sourceErrChan, walkRoot, log>>

\* secret, err := c.ReadSecret(path)
WalkRead(b) ==
    /\ walk[b].pc = "read"
    /\ \E ok \in CallResults :
          IF ~ok \/ ~HasSecret(source, b)
          THEN /\ failures' = IF ok THEN failures ELSE failures + 1
               /\ walk' = [walk EXCEPT ![b] = [@ EXCEPT !.pc = "errsend", !.err = "read"]]
          ELSE /\ failures' = failures
               /\ walk' = [walk EXCEPT ![b].pc = "emit"]
    /\ UNCHANGED <<inputVars, dest, destWrites, destChecks, ctxDone, stats, main, ret, paths,
                   engineVars, sourceSecrets, sourceErrChan, walkRoot, log>>

\* a call that returns after ReadSecret without sending the secret
WalkEmit_Drop(b) ==
    /\ walk[b].pc = "emit"
    /\ walk' = [walk EXCEPT ![b].pc = "done"]
    /\ UNCHANGED <<inputVars, dest, destWrites, destChecks, failures, ctxDone, stats, main, ret, paths,
                   engineVars, sourceSecrets, sourceErrChan, walkRoot, log>>

\* select { case secretsChan <- secret:  case <-ctx.Done(): errChan <- ctx.Err() }
WalkEmit(b) ==
    /\ walk[b].pc = "emit"
    /\ \/ /\ Len(sourceSecrets.buf) < WalkerChanCap
          /\ sourceSecrets' = [sourceSecrets EXCEPT !.buf = Append(@, Secret(source, b))]
          /\ walk' = [walk EXCEPT ![b].pc = "done"]
       \/ /\ ctxDone
          /\ walk' = [walk EXCEPT ![b] = [@ EXCEPT !.pc = "errsend", !.err = "cancel"]]
          /\ sourceSecrets' = sourceSecrets
    /\ UNCHANGED <<inputVars, dest, destWrites, destChecks, failures, ctxDone, stats, main, ret, paths,
                   engineVars, sourceErrChan, walkRoot, log>>

\* errChan <- err; return
WalkErrSend(b) ==
    /\ walk[b].pc = "errsend"
    /\ Len(sourceErrChan.buf) < WalkerErrCap
    /\ sourceErrChan' = [sourceErrChan EXCEPT !.buf = Append(@, walk[b].err)]
    /\ walk' = [walk EXCEPT ![b] = [@ EXCEPT !.pc = "failed", !.err = ""]]
    /\ UNCHANGED <<inputVars, dest, destWrites, destChecks, failures, ctxDone, stats, main, ret, paths,
                   engineVars, sourceSecrets, walkRoot, log>>

\* the deferred close(errChan) of GetAllSecrets' goroutine, which runs first
WalkCloseErr ==
    /\ walkRoot = "walk"
    /\ \E b \in DOMAIN walk : walk[b].root /\ Returned(b)
    /\ sourceErrChan' = [sourceErrChan EXCEPT !.closed = TRUE]
    /\ walkRoot' = "closeSecrets"
    /\ UNCHANGED <<inputVars, dest, destWrites, destChecks, failures, ctxDone, stats, main, ret, paths,
                   engineVars, sourceSecrets, walk, log>>

\* the deferred close(secretsChan) of GetAllSecrets' goroutine
WalkCloseSecrets ==
    /\ walkRoot = "closeSecrets"
    /\ sourceSecrets' = [sourceSecrets EXCEPT !.closed = TRUE]
    /\ walkRoot' = "done"
    /\ UNCHANGED <<inputVars, dest, destWrites, destChecks, failures, ctxDone, stats, main, ret, paths,
                   engineVars, sourceErrChan, walk, log>>

Walker ==
    \/ \E b \in DOMAIN walk :
          \/ WalkCtx(b)
          \/ WalkIsDir(b)
          \/ WalkList(b)
          \/ WalkWait(b)
          \/ WalkRead(b)
          \/ WalkEmit(b)
          \/ WalkErrSend(b)
    \/ WalkCloseErr
    \/ WalkCloseSecrets

(***************************************************************************)
(* The producer goroutine of syncDirectory and of syncMultiplePaths        *)
(***************************************************************************)
Cap == cfg.ParallelWorkers * ChanFactor

\* a variant whose return leaves the transfer channel open
ProdReturn_NoClose(why) ==
    /\ prod' = [prod EXCEPT !.pc = "done", !.exit = why, !.err = ""]
    /\ secretsChan' = secretsChan

\* return: the deferred close(secretsChan) and wg.Done()
ProdReturn(why) ==
    /\ prod' = [prod EXCEPT !.pc = "done", !.exit = why, !.err = ""]
    /\ secretsChan' = [secretsChan EXCEPT !.closed = TRUE]

\* goto nextPath: the next iteration of the loop over paths
ProdNextPath ==
    /\ prod' = [prod EXCEPT !.pc = "path", !.i = @ + 1, !.inWalk = FALSE]
    /\ secretsChan' = secretsChan

\* syncDirectory: sourceSecrets, sourceErrChan := GetAllSecrets(ctx, SourcePath)
ProdStart ==
    /\ prod.pc = "start"
    /\ GetAllSecrets(cfg.SourcePath)
    /\ prod' = [prod EXCEPT !.pc = "select", !.inWalk = TRUE]
    /\ UNCHANGED <<inputVars, dest, destWrites, destChecks, failures, ctxDone, stats, main, ret, paths,
                   secretsChan, errChan, workers, closer, log>>

\* syncMultiplePaths: one iteration of "for _, path := range paths" up to the
\* directory check and, for a directory, the call of GetAllSecrets
ProdPath ==
    /\ prod.pc = "path"
    /\ IF prod.i > Len(paths)
       THEN /\ ProdReturn("closed")
            /\ UNCHANGED <<failures, walkerVars>>
       ELSE \E ok \in CallResults :
            IF ~ok
            THEN /\ Failed
                 /\ prod' = [prod EXCEPT !.pc = "errsend", !.err = "isdir"]
                 /\ UNCHANGED <<secretsChan, walkerVars>>
            ELSE IF HasListing(source, paths[prod.i])
            THEN /\ GetAllSecrets(paths[prod.i])
                 /\ prod' = [prod EXCEPT !.pc = "select", !.inWalk = TRUE]
                 /\ UNCHANGED <<failures, secretsChan>>
            ELSE /\ prod' = [prod EXCEPT !.pc = "read"]
                 /\ UNCHANGED <<failures, secretsChan, walkerVars>>
    /\ UNCHANGED <<inputVars, dest, destWrites, destChecks, ctxDone, stats, main, ret, paths,
                   errChan, workers, closer, log>>

\* syncMultiplePaths: secret, err := ReadSecret(path) of a path that is no directory
ProdRead ==
    /\ prod.pc = "read"
    /\ \E ok \in CallResults :
          IF ~ok \/ ~HasSecret(source, paths[prod.i])
          THEN /\ failures' = IF ok THEN failures ELSE failures + 1
               /\ prod' = [prod EXCEPT !.pc = "errsend", !.err = "read"]
               /\ stats' = stats
          ELSE /\ failures' = failures
               /\ stats' = AddInt64("SecretsRead")
               /\ prod' = [prod EXCEPT !.pc = "send", !.secret = Secret(source, paths[prod.i])]
    /\ UNCHANGED <<inputVars, dest, destWrites, destChecks, ctxDone, main, ret, paths,
                   secretsChan, errChan, workers, closer, walkerVars, log>>

\* a producer that forwards a received secret without counting it as read
ProdSelectSecret_NoCount ==
    /\ prod.pc = "select"
    /\ \/ /\ sourceSecrets.buf # <<>>
          /\ sourceSecrets' = [sourceSecrets EXCEPT !.buf = Tail(@)]
          /\ prod' = [prod EXCEPT !.pc = "send", !.secret = Head(sourceSecrets.buf)]
          /\ secretsChan' = secretsChan
       \/ /\ sourceSecrets.buf = <<>>
          /\ sourceSecrets.closed
          /\ IF main.mode = "dir" THEN ProdReturn("closed") ELSE ProdNextPath
          /\ sourceSecrets' = sourceSecrets
    /\ UNCHANGED <<inputVars, dest, destWrites, destChecks, failures, ctxDone, stats, main, ret, paths,
                   errChan, workers, closer, sourceErrChan, walkRoot, walk, log>>

\* case secret, ok := <-sourceSecrets
ProdSelectSecret ==
    /\ prod.pc = "select"
    /\ \/ /\ sourceSecrets.buf # <<>>
          /\ sourceSecrets' = [sourceSecrets EXCEPT !.buf = Tail(@)]
          /\ stats' = AddInt64("SecretsRead")
          /\ prod' = [prod EXCEPT !.pc = "send", !.secret = Head(sourceSecrets.buf)]
          /\ secretsChan' = secretsChan
       \/ /\ sourceSecrets.buf = <<>>
          /\ sourceSecrets.closed
          /\ IF main.mode = "dir" THEN ProdReturn("closed") ELSE ProdNextPath
          /\ UNCHANGED <<sourceSecrets, stats>>
    /\ UNCHANGED <<inputVars, dest, destWrites, destChecks, failures, ctxDone, main, ret, paths,
                   errChan, workers, closer, sourceErrChan, walkRoot, walk, log>>

\* case err := <-sourceErrChan
ProdSelectErr ==
    /\ prod.pc = "select"
    /\ \/ /\ sourceErrChan.buf # <<>>
          /\ sourceErrChan' = [sourceErrChan EXCEPT !.buf = Tail(@)]
          /\ prod' = [prod EXCEPT !.pc = "errsend", !.err = Head(sourceErrChan.buf)]
          /\ secretsChan' = secretsChan
       \/ /\ sourceErrChan.buf = <<>>
          /\ sourceErrChan.closed
          /\ IF main.mode = "dir" THEN ProdReturn("nil") ELSE ProdNextPath
          /\ sourceErrChan' = sourceErrChan
    /\ UNCHANGED <<inputVars, dest, destWrites, destChecks, failures, ctxDone, stats, main, ret, paths,
                   errChan, workers, closer, sourceSecrets, walkRoot, walk, log>>

\* case <-ctx.Done()
ProdSelectCancel ==
    /\ prod.pc = "select"
    /\ ctxDone
    /\ ProdReturn("cancel")
    /\ UNCHANGED <<inputVars, dest, destWrites, destChecks, failures, ctxDone, stats, main, ret, paths,
                   errChan, workers, closer, walkerVars, log>>

\* secretsChan <- secret
ProdSend ==
    /\ prod.pc = "send"
    /\ Len(secretsChan.buf) < Cap
    /\ secretsChan' = [secretsChan EXCEPT !.buf = Append(@, prod.secret)]
    /\ prod' = IF prod.inWalk THEN [prod EXCEPT !.pc = "select", !.secret = <<>>]
               ELSE [prod EXCEPT !.pc = "path", !.i = @ + 1, !.secret = <<>>]
    /\ UNCHANGED <<inputVars, dest, destWrites, destChecks, failures, ctxDone, stats, main, ret, paths,
                   errChan, workers, closer, walkerVars, log>>

\* a producer that forwards the error and goes on with its loop
ProdErrSend_Continue ==
    /\ prod.pc = "errsend"
    /\ Len(errChan.buf) < cfg.ParallelWorkers
    /\ errChan' = [errChan EXCEPT !.buf = Append(@, prod.err)]
    /\ prod' = IF prod.inWalk THEN [prod EXCEPT !.pc = "select", !.exit = "error", !.err = ""]
               ELSE [prod EXCEPT !.pc = "path", !.i = @ + 1, !.exit = "error", !.err = ""]
    /\ UNCHANGED <<inputVars, dest, destWrites, destChecks, failures, ctxDone, stats, main, ret, paths,
                   secretsChan, workers, closer, walkerVars, log>>

\* errChan <- err; return
ProdErrSend ==
    /\ prod.pc = "errsend"
    /\ Len(errChan.buf) < cfg.ParallelWorkers
    /\ errChan' = [errChan EXCEPT !.buf = Append(@, prod.err)]
    /\ ProdReturn("error")
    /\ UNCHANGED <<inputVars, dest, destWrites, destChecks, failures, ctxDone, stats, main, ret, paths,
                   workers, closer, walkerVars, log>>

Producer ==
    \/ ProdStart
    \/ ProdPath
    \/ ProdRead
    \/ ProdSelectSecret
    \/ ProdSelectErr
    \/ ProdSelectCancel
    \/ ProdSend
    \/ ProdErrSend

(***************************************************************************)
(* SyncManager.writeWorker.  The workers differ only in the id they log,   *)
(* so the pool is the bag of their local states.                           *)
(***************************************************************************)
\* a worker's local state
Worker(pc, secret, err) == [pc |-> pc, secret |-> secret, err |-> err]

\* a worker that is at the head of its loop
WorkerIdle == Worker("recv", <<>>, "")

\* the pool after one worker in state w went to state next
Step(w, next) == (workers (-) SetToBag({w})) (+) SetToBag({next})

\* a worker that reads the head of the channel and leaves it there
WorkerRecv_Peek(w) ==
    /\ w.pc = "recv"
    /\ \/ /\ secretsChan.buf # <<>>
          /\ workers' = Step(w, Worker("ctx", Head(secretsChan.buf), ""))
       \/ /\ secretsChan.buf = <<>>
          /\ secretsChan.closed
          /\ workers' = Step(w, Worker("done", <<>>, ""))
    /\ UNCHANGED <<inputVars, dest, destWrites, destChecks, failures, ctxDone, stats, main, ret, paths,
                   secretsChan, errChan, prod, closer, walkerVars, log>>

\* for secret := range secretsChan
WorkerRecv(w) ==
    /\ w.pc = "recv"
    /\ \/ /\ secretsChan.buf # <<>>
          /\ secretsChan' = [secretsChan EXCEPT !.buf = Tail(@)]
          /\ workers' = Step(w, Worker("ctx", Head(secretsChan.buf), ""))
       \/ /\ secretsChan.buf = <<>>
          /\ secretsChan.closed
          /\ workers' = Step(w, Worker("done", <<>>, ""))
          /\ secretsChan' = secretsChan
    /\ UNCHANGED <<inputVars, dest, destWrites, destChecks, failures, ctxDone, stats, main, ret, paths,
                   errChan, prod, closer, walkerVars, log>>

\* a worker that goes on to the existence check whatever the context says
WorkerCtx_NoCheck(w) ==
    /\ w.pc = "ctx"
    /\ workers' = Step(w, [w EXCEPT !.pc = "exists"])
    /\ UNCHANGED <<inputVars, dest, destWrites, destChecks, failures, ctxDone, stats, main, ret, paths,
                   secretsChan, errChan, prod, closer, walkerVars, log>>

\* select { case <-ctx.Done(): return  default: }
WorkerCtx(w) ==
    /\ w.pc = "ctx"
    /\ IF ctxDone
       THEN workers' = Step(w, Worker("done", <<>>, ""))
       ELSE workers' = Step(w, [w EXCEPT !.pc = "exists"])
    /\ UNCHANGED <<inputVars, dest, destWrites, destChecks, failures, ctxDone, stats, main, ret, paths,
                   secretsChan, errChan, prod, closer, walkerVars, log>>

\* exists, err := m.destClient.SecretExists(destPath) and the decision on it
WorkerExists(w) ==
    /\ w.pc = "exists"
    /\ LET path     == w.secret.Path
           destPath == DestPath(path)
       IN  \E ok \in CallResults :
           /\ destChecks' = destChecks \cup {destPath}
           /\ IF ~ok
              THEN /\ Failed
                   /\ workers' = Step(w, Worker("errsend", <<>>, "check"))
                   /\ log' = LogOutcome(path, "checkerr")
                   /\ stats' = stats
              ELSE /\ failures' = failures
                   /\ IF SkipExisting(destPath \in DOMAIN dest)
                      THEN /\ stats' = AddInt64("SecretsSkipped")
                           /\ workers' = Step(w, WorkerIdle)
                           /\ log' = LogOutcome(path, "skipped")
                      ELSE IF DryRun
                      THEN /\ stats' = AddInt64("SecretsWritten")
                           /\ workers' = Step(w, WorkerIdle)
                           /\ log' = LogOutcome(path, "written")
                      ELSE /\ workers' = Step(w, [w EXCEPT !.pc = "write"])
                           /\ UNCHANGED <<stats, log>>
    /\ UNCHANGED <<inputVars, dest, destWrites, ctxDone, main, ret, paths,
                   secretsChan, errChan, prod, closer, walkerVars>>

\* err = m.destClient.WriteSecret(destPath, secret.Data)
WorkerWrite(w) ==
    /\ w.pc = "write"
    /\ LET path     == w.secret.Path
           destPath == DestPath(path)
       IN  /\ destWrites' = destWrites \cup {destPath}
           /\ \E ok \in CallResults :
              IF ~ok
              THEN /\ Failed
                   /\ workers' = Step(w, Worker("errsend", <<>>, "write"))
                   /\ log' = LogOutcome(path, "writeerr")
                   /\ UNCHANGED <<dest, stats>>
              ELSE /\ failures' = failures
                   /\ dest' = WriteSecret(dest, destPath, w.secret.Data)
                   /\ stats' = AddInt64("SecretsWritten")
                   /\ workers' = Step(w, WorkerIdle)
                   /\ log' = LogOutcome(path, "written")
    /\ UNCHANGED <<inputVars, destChecks, ctxDone, main, ret, paths,
                   secretsChan, errChan, prod, closer, walkerVars>>

\* a variant in which the worker returns after it reported the failure
WorkerErrSend_Return(w) ==
    /\ w.pc = "errsend"
    /\ Len(errChan.buf) < cfg.ParallelWorkers
    /\ errChan' = [errChan EXCEPT !.buf = Append(@, w.err)]
    /\ workers' = Step(w, Worker("done", <<>>, ""))
    /\ UNCHANGED <<inputVars, dest, destWrites, destChecks, failures, ctxDone, stats, main, ret,
                   paths, secretsChan, prod, closer, walkerVars, log>>

\* errChan <- fmt.Errorf(...); continue
WorkerErrSend(w) ==
    /\ w.pc = "errsend"
    /\ Len(errChan.buf) < cfg.ParallelWorkers
    /\ errChan' = [errChan EXCEPT !.buf = Append(@, w.err)]
    /\ workers' = Step(w, WorkerIdle)
    /\ UNCHANGED <<inputVars, dest, destWrites, destChecks, failures, ctxDone, stats, main, ret, paths,
                   secretsChan, prod, closer, walkerVars, log>>

writeWorker ==
    \E w \in BagToSet(workers) :
       \/ WorkerRecv(w)
       \/ WorkerCtx(w)
       \/ WorkerExists(w)
       \/ WorkerWrite(w)
       \/ WorkerErrSend(w)

(***************************************************************************)
(* The end of syncDirectory / syncMultiplePaths                            *)
(***************************************************************************)
\* a coordinating task that waits for the producer only
Closer_NoWriterWait ==
    /\ closer = "wait"
    /\ prod.pc = "done"
    /\ errChan' = [errChan EXCEPT !.closed = TRUE]
    /\ closer' = "done"
    /\ UNCHANGED <<inputVars, dest, destWrites, destChecks, failures, ctxDone, stats, main, ret, paths,
                   secretsChan, prod, workers, walkerVars, log>>

\* go func() { wg.Wait(); writerWg.Wait(); close(errChan) }()
Closer ==
    /\ closer = "wait"
    /\ prod.pc = "done"
    /\ \A w \in BagToSet(workers) : w.pc = "done"
    /\ errChan' = [errChan EXCEPT !.closed = TRUE]
    /\ closer' = "done"
    /\ UNCHANGED <<inputVars, dest, destWrites, destChecks, failures, ctxDone, stats, main, ret, paths,
                   secretsChan, prod, workers, walkerVars, log>>

\* a variant of the loop that receives the failures and does not count them
MainRange_NoCount ==
    /\ main.pc = "range"
    /\ errChan.buf # <<>>
    /\ errChan' = [errChan EXCEPT !.buf = Tail(@)]
    /\ UNCHANGED <<inputVars, dest, destWrites, destChecks, failures, ctxDone, stats, main, ret, paths,
                   secretsChan, prod, workers, closer, walkerVars, log>>

\* for err := range errChan { atomic.AddInt64(&stats.Errors, 1) }
MainRange ==
    /\ main.pc = "range"
    /\ errChan.buf # <<>>
    /\ errChan' = [errChan EXCEPT !.buf = Tail(@)]
    /\ stats' = AddInt64("Errors")
    /\ UNCHANGED <<inputVars, dest, destWrites, destChecks, failures, ctxDone, main, ret, paths,
                   secretsChan, prod, workers, closer, walkerVars, log>>

\* a loop that ends as soon as no failure waits in the channel
MainReturn_OnEmpty ==
    /\ main.pc = "range"
    /\ errChan.buf = <<>>
    /\ ReturnStats
    /\ UNCHANGED <<inputVars, dest, destWrites, destChecks, failures, ctxDone, stats, paths,
                   engineVars, walkerVars, log>>

\* the range loop ends on the closed channel: return stats, nil
MainReturn ==
    /\ main.pc = "range"
    /\ errChan.buf = <<>>
    /\ errChan.closed
    /\ ReturnStats
    /\ UNCHANGED <<inputVars, dest, destWrites, destChecks, failures, ctxDone, stats, paths,
                   engineVars, walkerVars, log>>

(***************************************************************************)
(* The caller cancels the context while Sync runs.                         *)
(***************************************************************************)
Cancel ==
    /\ ~ctxDone
    /\ main.pc # "returned"
    /\ ctxDone' = TRUE
    /\ UNCHANGED <<inputVars, dest, destWrites, destChecks, failures, stats, main, ret, paths,
                   engineVars, walkerVars, log>>

Next ==
    \/ Sync
    \/ syncSingleSecret
    \/ Producer
    \/ writeWorker
    \/ Closer
    \/ MainRange
    \/ MainReturn
    \/ Walker
    \/ Cancel

Spec == Init /\ [][Next]_vars

(***************************************************************************)
(* The runs whose context is never cancelled: the caller does not cancel,  *)
(* so the producer's select never takes its ctx.Done() case.  The Go       *)
(* scheduler runs every goroutine that can take a step: Sync's own         *)
(* goroutine, the producer, the workers, the closer and the walker.        *)
(***************************************************************************)
ProducerNoCancel ==
    \/ ProdStart
    \/ ProdPath
    \/ ProdRead
    \/ ProdSelectSecret
    \/ ProdSelectErr
    \/ ProdSend
    \/ ProdErrSend

NextLive ==
    \/ Sync
    \/ syncSingleSecret
    \/ ProducerNoCancel
    \/ writeWorker
    \/ Closer
    \/ MainRange
    \/ MainReturn
    \/ Walker

Fairness ==
    /\ WF_vars(Sync)
    /\ WF_vars(syncSingleSecret)
    /\ WF_vars(ProducerNoCancel)
    /\ WF_vars(writeWorker)
    /\ WF_vars(Walker)
    /\ WF_vars(Closer)
    /\ WF_vars(MainRange)
    /\ WF_vars(MainReturn)

LiveSpec == Init /\ [][NextLive]_vars /\ Fairness

(***************************************************************************)
(* Wildcard runs over the flat store: every expanded path is a leaf, so    *)
(* the producer reads each path itself and no walk is started.             *)
(***************************************************************************)
InitFlat == InitOver(StoreFlat, { <<"s", "/", "*">> })

NextFlat ==
    \/ Sync
    \/ ProdPath
    \/ ProdRead
    \/ ProdSend
    \/ ProdErrSend
    \/ writeWorker
    \/ Closer
    \/ MainRange
    \/ MainReturn
    \/ Cancel

SpecFlat == InitFlat /\ [][NextFlat]_vars

(***************************************************************************)
(* Directory runs over the tree where a path holds a value and has a       *)
(* child.                                                                  *)
(***************************************************************************)
InitBoth == InitOver(StoreBoth, { <<"s">> })

NextBoth ==
    \/ Sync
    \/ ProdStart
    \/ ProdSelectSecret
    \/ ProdSelectErr
    \/ ProdSelectCancel
    \/ ProdSend
    \/ ProdErrSend
    \/ writeWorker
    \/ Closer
    \/ MainRange
    \/ MainReturn
    \/ Walker
    \/ Cancel

SpecBoth == InitBoth /\ [][NextBoth]_vars

(***************************************************************************)
(* SyncManager.transformPath of internal/sync/manager.go                   *)
(***************************************************************************)
ManagerTransformPath(sourceRoot, sourcePath, baseDestPath) ==
    LET trimmed      == TrimPrefix(sourcePath, sourceRoot)
        relativePath == IF HasPrefix(trimmed, <<"/">>) THEN Tail(trimmed) ELSE trimmed
    IN  IF Contains(baseDestPath, <<"/", "d", "a", "t", "a", "/">>)
        THEN baseDestPath \o <<"/">> \o relativePath
        ELSE <<"s", "e", "c", "r", "e", "t", "/", "d", "a", "t", "a", "/">> \o baseDestPath \o <<"/">> \o relativePath

(***************************************************************************)
(* TransformPath of package vault                                          *)
(***************************************************************************)
\* what TransformPath appends to the destination: the relative path without
\* its first segment, or the relative path when it has one segment
RestPath_KeepFirst(relativePath) == relativePath

RestPath(relativePath) ==
    LET relativeParts == Split(relativePath)
    IN  IF Len(relativeParts) > 1 THEN Join(Tail(relativeParts)) ELSE relativePath

TransformPath(sourcePath, baseDestPath) ==
    LET parts == Split(sourcePath)
    IN  IF Len(parts) < 3 THEN baseDestPath
        ELSE IF ~Contains(sourcePath, <<"/", "d", "a", "t", "a", "/">>)
        THEN LET relativePath == TrimPrefix(sourcePath, parts[1] \o <<"/">>)
             IN  IF Contains(baseDestPath, <<"/", "d", "a", "t", "a", "/">>)
                 THEN baseDestPath \o <<"/">> \o RestPath(relativePath)
                 ELSE parts[1] \o <<"/", "d", "a", "t", "a", "/">> \o baseDestPath
                          \o <<"/">> \o RestPath(relativePath)
        ELSE LET engineAndData == parts[1] \o <<"/">> \o parts[2] \o <<"/">>
                 relativePath  == TrimPrefix(sourcePath, engineAndData)
             IN  IF Contains(baseDestPath, <<"/", "d", "a", "t", "a", "/">>)
                 THEN baseDestPath \o <<"/">> \o RestPath(relativePath)
                 ELSE parts[1] \o <<"/", "d", "a", "t", "a", "/">> \o baseDestPath
                          \o <<"/">> \o RestPath(relativePath)

\* the source paths TransformPath is called with: with and without the
\* "/data/" marker, with one, two and three segments after it, and short ones
TransformSources ==
    { <<"k", "v", "/", "d", "a", "t", "a", "/", "n">>,
      <<"k", "v", "/", "d", "a", "t", "a", "/", "n", "/", "a">>,
      <<"k", "v", "/", "d", "a", "t", "a", "/", "n", "/", "a", "/", "b">>,
      <<"k", "v", "/", "n", "/", "a">>,
      <<"k", "v", "/", "n", "/", "a", "/", "b">>,
      <<"k", "v", "/", "n">>,
      <<"k", "v">> }

(***************************************************************************)
(* Client.BatchWriteSecrets: the loop of its goroutine over the secrets it *)
(* receives, up to the close of its error channel.  cancelAt is the first  *)
(* iteration whose select finds the context done (past the end: none),     *)
(* failing the iterations whose WriteSecret fails.  The result is the      *)
(* destination store, the paths WriteSecret was called with, and the       *)
(* errors sent.                                                            *)
(***************************************************************************)
RECURSIVE BatchWriteFrom(_, _, _, _, _, _)
BatchWriteFrom(secrets, i, basePath, cancelAt, failing, acc) ==
    IF i > Len(secrets) THEN acc
    ELSE IF i >= cancelAt THEN [acc EXCEPT !.errs = Append(@, "cancel")]
    ELSE LET destPath == TransformPath(secrets[i].Path, basePath)
         IN  IF i \in failing
             THEN BatchWriteFrom(secrets, i + 1, basePath, cancelAt, failing,
                                 [acc EXCEPT !.writes = Append(@, destPath),
                                             !.errs = Append(@, "write")])
             ELSE BatchWriteFrom(secrets, i + 1, basePath, cancelAt, failing,
                                 [acc EXCEPT !.writes = Append(@, destPath),
                                             !.dest = WriteSecret(@, destPath, secrets[i].Data)])

BatchWriteSecrets(secrets, basePath, cancelAt, failing) ==
    BatchWriteFrom(secrets, 1, basePath, cancelAt, failing,
                   [dest |-> <<>>, writes |-> <<>>, errs |-> <<>>])

\* the source paths of a batch: two namespaces with a secret of the same
\* name, and a second secret in the first namespace
BatchSources ==
    { <<"k", "v", "/", "d", "a", "t", "a", "/", "n", "/", "a">>,
      <<"k", "v", "/", "d", "a", "t", "a", "/", "m", "/", "a">>,
      <<"k", "v", "/", "d", "a", "t", "a", "/", "n", "/", "b">> }

\* the secrets channel of a call: two secrets, then closed
BatchSize == 2

(***************************************************************************)
(* The path functions called on their own, on inputs drawn from small      *)
(* sets: source roots with and without an engine, destination roots with   *)
(* and without the "/data/" marker and a trailing separator, the root      *)
(* itself and paths under it.                                              *)
(***************************************************************************)
SourceRoots == { <<"s">>, <<"k", "v", "/", "d", "a", "t", "a", "/", "s">>, <<"s", "e", "c", "r", "e", "t", "/", "d", "a", "t", "a", "/", "s">> }

DestRoots == { <<"t">>, <<"t", "/">>, <<"k", "v", "/", "d", "a", "t", "a", "/", "t">>, <<"k", "v", "/", "d", "a", "t", "a", "/", "t">> \o <<"/">>, <<"s", "e", "c", "r", "e", "t", "/", "d", "a", "t", "a", "/", "t">> }

Rels == { <<"a">>, <<"a", "/", "b">> }

\* the root and the paths under it
Under(root) == {root} \cup { root \o <<"/">> \o rel : rel \in Rels }

\* the stores the expansion is called on
CalcStores == { StoreNested, StoreSiblings, StoreTwoDirs }

\* the patterns the expansion is called with: no glob, a glob that matches
\* some siblings, one that matches none, one that matches all, a glob
\* followed by a literal segment
Patterns ==
    { <<"s", "/", "c">>, <<"s", "/", "p", "g", "*">>, <<"s", "/", "m", "*">>, <<"s", "/", "*">>,
      <<"s", "/", "*", "/", "b">> }

InitCalc ==
    /\ \E s \in SourceRoots, d \in DestRoots :
          cfg = [Config(s, FALSE, FALSE, FALSE, 1) EXCEPT !.DestinationPath = d]
    /\ source \in CalcStores
    /\ dest0 = <<>>
    /\ calc = NoCalc
    /\ Idle

\* m.transformPath(sourcePath, m.config.DestinationPath) of the engine
TransformPathCall ==
    /\ \E p \in Under(cfg.SourcePath) :
          calc' = [fn |-> "transformPath", sourcePath |-> p,
                   out |-> transformPath(cfg.SourcePath, p, cfg.DestinationPath)]
    /\ UNCHANGED <<cfg, source, dest0, dest, destWrites, destChecks, failures, ctxDone, stats,
                   main, ret, paths, engineVars, walkerVars, log>>

\* m.transformPath(sourcePath, m.config.DestinationPath) of internal/sync/manager.go
ManagerTransformPathCall ==
    /\ \E p \in Under(cfg.SourcePath) :
          calc' = [fn |-> "ManagerTransformPath", sourcePath |-> p,
                   out |-> ManagerTransformPath(cfg.SourcePath, p, cfg.DestinationPath)]
    /\ UNCHANGED <<cfg, source, dest0, dest, destWrites, destChecks, failures, ctxDone, stats,
                   main, ret, paths, engineVars, walkerVars, log>>

\* vault.TransformPath(secret.Path, basePath)
VaultTransformPathCall ==
    /\ \E p \in TransformSources :
          calc' = [fn |-> "TransformPath", sourcePath |-> p,
                   out |-> TransformPath(p, cfg.DestinationPath)]
    /\ UNCHANGED <<cfg, source, dest0, dest, destWrites, destChecks, failures, ctxDone, stats,
                   main, ret, paths, engineVars, walkerVars, log>>

\* sourceClient.ExpandWildcardPath(pattern) of the vault client
ExpandWildcardPathCall ==
    /\ \E pattern \in Patterns, fail \in BOOLEAN :
          \E out \in ExpandWildcardPath(source, pattern, fail) :
              calc' = [fn |-> "ExpandWildcardPath", pattern |-> pattern, out |-> out]
    /\ UNCHANGED <<cfg, source, dest0, dest, destWrites, destChecks, failures, ctxDone, stats,
                   main, ret, paths, engineVars, walkerVars, log>>

\* mockClient.ExpandWildcardPath(pattern) of the mock client
MockExpandWildcardPathCall ==
    /\ \E pattern \in Patterns :
          \E out \in MockExpandWildcardPath(pattern) :
              calc' = [fn |-> "MockExpandWildcardPath", pattern |-> pattern, out |-> out]
    /\ UNCHANGED <<cfg, source, dest0, dest, destWrites, destChecks, failures, ctxDone, stats,
                   main, ret, paths, engineVars, walkerVars, log>>

\* c.BatchWriteSecrets(ctx, secrets, basePath), its error channel ranged over
BatchWriteSecretsCall ==
    /\ \E p, q \in BatchSources, cancelAt \in 1..(BatchSize + 1), failing \in SUBSET (1..BatchSize) :
          LET secrets == << [Path |-> p, Data |-> "v1"], [Path |-> q, Data |-> "v2"] >>
          IN  calc' = [fn |-> "BatchWriteSecrets", secrets |-> secrets,
                       out |-> BatchWriteSecrets(secrets, cfg.DestinationPath, cancelAt, failing)]
    /\ UNCHANGED <<cfg, source, dest0, dest, destWrites, destChecks, failures, ctxDone, stats,
                   main, ret, paths, engineVars, walkerVars, log>>

NextCalc ==
    \/ BatchWriteSecretsCall
    \/ TransformPathCall
    \/ ManagerTransformPathCall
    \/ VaultTransformPathCall
    \/ ExpandWildcardPathCall
    \/ MockExpandWildcardPathCall

SpecCalc == InitCalc /\ [][NextCalc]_vars

(***************************************************************************)
(* NewConfig of package config.  Addresses and tokens are strings, "" when *)
(* not given; the paths are sequences of characters.                       *)
(***************************************************************************)
\* the value of a setting after "if x == "" { x = next }"
OrElse(x, next) == IF x = "" THEN next ELSE x

Secret_ == <<"s", "e", "c", "r", "e", "t">>
Kv_     == <<"k", "v">>
Data_   == <<"/", "d", "a", "t", "a">>

\* normalizePath(path)
normalizePath(path) ==
    IF Contains(path, Data_ \o <<"/">>) \/ (~HasPrefix(path, Secret_) /\ ~HasPrefix(path, Kv_))
    THEN path
    ELSE IF path = Secret_ THEN Secret_ \o Data_
    ELSE IF path = Kv_ THEN Kv_ \o Data_
    ELSE IF HasPrefix(path, Secret_ \o <<"/">>) /\ ~HasPrefix(path, Secret_ \o Data_ \o <<"/">>)
    THEN Secret_ \o Data_ \o TrimPrefix(path, Secret_)
    ELSE IF HasPrefix(path, Kv_ \o <<"/">>) /\ ~HasPrefix(path, Kv_ \o Data_ \o <<"/">>)
    THEN Kv_ \o Data_ \o TrimPrefix(path, Kv_)
    ELSE path

\* the characters Validate accepts in a destination path
ValidChars ==
    { "a", "b", "c", "d", "e", "f", "g", "h", "i", "j", "k", "l", "m",
      "n", "o", "p", "q", "r", "s", "t", "u", "v", "w", "x", "y", "z",
      "A", "B", "C", "D", "E", "F", "G", "H", "I", "J", "K", "L", "M",
      "N", "O", "P", "Q", "R", "S", "T", "U", "V", "W", "X", "Y", "Z",
      "0", "1", "2", "3", "4", "5", "6", "7", "8", "9", "-", "_", "/" }

\* Config.Validate(): the error it returns, "" for nil
Validate(c) ==
    IF c.SourcePath = <<>> THEN "source path cannot be empty"
    ELSE IF c.DestinationPath = <<>> THEN "destination path cannot be empty"
    ELSE IF Contains(c.DestinationPath, <<".", ".">>) THEN "destination path cannot contain .."
    ELSE IF Contains(c.DestinationPath, <<"/", "/">>) THEN "destination path cannot contain //"
    ELSE IF \E i \in 1..Len(c.DestinationPath) : c.DestinationPath[i] \notin ValidChars
    THEN "destination path can only contain English letters, digits, hyphens, underscores, and slashes"
    ELSE IF c.ParallelWorkers < 1 THEN "parallel workers must be >= 1"
    ELSE ""

\* the default of the --parallel flag
DefaultParallel == 5

\* the built-in source address
DefaultAddr == "http://localhost:8200"

\* NewConfig(args...) in an environment and with a configuration file:
\* (cfg, nil) or (nil, err)
NewConfig(args, env, file) ==
    LET early == [SourcePath      |-> normalizePath(args.sourcePath),
                  DestinationPath |-> normalizePath(args.destinationPath),
                  ParallelWorkers |-> args.parallelWorkers]
        sourceAddr  == OrElse(OrElse(OrElse(OrElse(args.sourceAddr, env.VAULT_SOURCE_ADDR),
                                            file.SourceAddress), env.VAULT_ADDR), DefaultAddr)
        sourceToken == OrElse(OrElse(OrElse(args.sourceToken, env.VAULT_SOURCE_TOKEN),
                                     file.SourceToken), env.VAULT_TOKEN)
        destAddr    == OrElse(OrElse(OrElse(args.destAddr, env.VAULT_DEST_ADDR),
                                     file.DestinationAddress), env.VAULT_ADDR)
        destToken   == OrElse(OrElse(OrElse(args.destToken, env.VAULT_DEST_TOKEN),
                                     file.DestinationToken), env.VAULT_TOKEN)
    IN  IF Validate(early) # "" THEN [err |-> Validate(early)]
        ELSE IF sourceToken = "" THEN [err |-> "source Vault token not found"]
        ELSE IF destToken = "" THEN [err |-> "destination Vault token not found"]
        ELSE [err |-> "",
              cfg |-> [SourcePath      |-> early.SourcePath,
                       DestinationPath |-> early.DestinationPath,
                       Recursive       |-> IF ~args.recursive THEN file.Recursive ELSE args.recursive,
                       DryRun          |-> IF ~args.dryRun THEN file.DryRun ELSE args.dryRun,
                       Overwrite       |-> IF ~args.overwrite THEN file.Overwrite ELSE args.overwrite,
                       ParallelWorkers |-> IF args.parallelWorkers = DefaultParallel /\ file.Parallel # 0
                                           THEN file.Parallel ELSE args.parallelWorkers,
                       Verbose         |-> IF ~args.verbose THEN file.Verbose ELSE args.verbose,
                       SourceAddr      |-> sourceAddr,
                       SourceToken     |-> sourceToken,
                       DestAddr        |-> destAddr,
                       DestToken       |-> destToken]]

\* a call with the two paths and the shared token only: no other flag, no
\* other variable, no configuration file
BaseArgs ==
    [sourcePath |-> <<"s">>, destinationPath |-> <<"t">>,
     recursive |-> FALSE, dryRun |-> FALSE, overwrite |-> FALSE, verbose |-> FALSE,
     parallelWorkers |-> DefaultParallel,
     sourceAddr |-> "", sourceToken |-> "", destAddr |-> "", destToken |-> ""]

BaseEnv ==
    [VAULT_SOURCE_ADDR |-> "", VAULT_SOURCE_TOKEN |-> "", VAULT_DEST_ADDR |-> "",
     VAULT_DEST_TOKEN |-> "", VAULT_ADDR |-> "", VAULT_TOKEN |-> "shared-token"]

NoFile ==
    [SourceAddress |-> "", SourceToken |-> "", DestinationAddress |-> "", DestinationToken |-> "",
     Recursive |-> FALSE, DryRun |-> FALSE, Overwrite |-> FALSE, Parallel |-> 0, Verbose |-> FALSE]

\* the calls that differ in where the addresses come from
AddrInputs ==
    { [args |-> [BaseArgs EXCEPT !.sourceAddr = a, !.destAddr = da],
       env  |-> [BaseEnv EXCEPT !.VAULT_SOURCE_ADDR = e, !.VAULT_DEST_ADDR = de, !.VAULT_ADDR = sh],
       file |-> [NoFile EXCEPT !.SourceAddress = f, !.DestinationAddress = df]] :
        a \in {"", "https://flag-src"}, da \in {"", "https://flag-dst"},
        e \in {"", "https://env-src"}, de \in {"", "https://env-dst"},
        sh \in {"", "https://env-shared"},
        f \in {"", "https://file-src"}, df \in {"", "https://file-dst"} }

\* the calls that differ in where the tokens come from
TokenInputs ==
    { [args |-> [BaseArgs EXCEPT !.sourceToken = a, !.destToken = da],
       env  |-> [BaseEnv EXCEPT !.VAULT_SOURCE_TOKEN = e, !.VAULT_DEST_TOKEN = de, !.VAULT_TOKEN = sh],
       file |-> [NoFile EXCEPT !.SourceToken = f, !.DestinationToken = df]] :
        a \in {"", "flag-src-token"}, da \in {"", "flag-dst-token"},
        e \in {"", "env-src-token"}, de \in {"", "env-dst-token"},
        sh \in {"", "shared-token"},
        f \in {"", "file-src-token"}, df \in {"", "file-dst-token"} }

\* the calls that differ in the switches of the command line and of the file
SwitchInputs ==
    { [args |-> [BaseArgs EXCEPT !.recursive = r, !.dryRun = d, !.overwrite = o, !.verbose = v],
       env  |-> BaseEnv,
       file |-> [NoFile EXCEPT !.Recursive = fr, !.DryRun = fd, !.Overwrite = fo, !.Verbose = fv]] :
        r \in BOOLEAN, d \in BOOLEAN, o \in BOOLEAN, v \in BOOLEAN,
        fr \in BOOLEAN, fd \in BOOLEAN, fo \in BOOLEAN, fv \in BOOLEAN }

\* the calls that differ in the paths and in the number of workers
PathInputs ==
    { [args |-> [BaseArgs EXCEPT !.sourcePath = sp, !.destinationPath = dp, !.parallelWorkers = n],
       env  |-> BaseEnv,
       file |-> [NoFile EXCEPT !.Parallel = fn]] :
        sp \in { <<>>, <<"s">>, <<"k", "v", "/", "s">> },
        dp \in { <<>>, <<"t">>, <<"t", "/", "/", "a">>, <<"t", "*">> },
        n  \in { 0, 1, DefaultParallel },
        fn \in { -1, 0, 3 } }

ConfigInputs == AddrInputs \cup TokenInputs \cup SwitchInputs \cup PathInputs

InitConfig ==
    /\ cfg = Config(<<"s">>, FALSE, FALSE, FALSE, 1)
    /\ source = StoreNested
    /\ dest0 = <<>>
    /\ calc = NoCalc
    /\ Idle

\* config.NewConfig(...) as main calls it
NewConfigCall ==
    /\ \E in \in ConfigInputs :
          calc' = [fn |-> "NewConfig", args |-> in.args, env |-> in.env, file |-> in.file,
                   out |-> NewConfig(in.args, in.env, in.file)]
    /\ UNCHANGED <<cfg, source, dest0, dest, destWrites, destChecks, failures, ctxDone, stats,
                   main, ret, paths, engineVars, walkerVars, log>>

NextConfig == NewConfigCall

SpecConfig == InitConfig /\ [][NextConfig]_vars

(***************************************************************************)
(* What the claims speak about.                                            *)
(***************************************************************************)
\* Sync returned (stats, nil)
ReturnedStats == ret = "stats"

\* the run used the pipeline of syncDirectory or syncMultiplePaths
Pipeline == main.mode \in {"dir", "wild"}

\* the leaf secrets under the source root
Leaves == { p \in WalkLeaves(source, cfg.SourcePath) : HasSecret(source, p) }

\* every worker has returned
WorkersDone == \A w \in BagToSet(workers) : w.pc = "done"

\* the source paths whose secret was logged with exactly this outcome
With(what) == { p \in DOMAIN log : log[p] = <<what>> }

(***************************************************************************)
(* C1  In directory mode, with no cancellation and no store failure, when  *)
(* Sync returns SecretsRead is the number of leaf secrets under the source *)
(* root and, for an empty destination (and a run that writes), so is       *)
(* SecretsWritten, and every leaf's data is stored at its destination path.*)
(***************************************************************************)
C1_DirectoryCopiesEveryLeaf ==
    (ReturnedStats /\ main.mode = "dir" /\ ~ctxDone /\ failures = 0) =>
        /\ stats.SecretsRead = Cardinality(Leaves)
        /\ (dest0 = <<>> /\ ~cfg.DryRun) =>
              /\ stats.SecretsWritten = Cardinality(Leaves)
              /\ \A p \in Leaves :
                    /\ DestPath(p) \in DOMAIN dest
                    /\ dest[DestPath(p)] = source.secrets[p]

(***************************************************************************)
(* C2  For every non-cancelled run of Sync that returns statistics,        *)
(* SecretsWritten + SecretsSkipped + Errors = SecretsRead.                 *)
(***************************************************************************)
C2_OutcomesEqualRead ==
    (ReturnedStats /\ ~ctxDone) =>
        stats.SecretsWritten + stats.SecretsSkipped + stats.Errors = stats.SecretsRead

\* the enumeration failures the producer forwarded to the error channel
Forwarded == IF prod.exit = "error" THEN 1 ELSE 0

(***************************************************************************)
(* C2 as amended: for every non-cancelled run of Sync that returns         *)
(* statistics, SecretsWritten + SecretsSkipped + Errors = SecretsRead + 1  *)
(* when the producer forwarded an enumeration failure to the error         *)
(* channel, and = SecretsRead otherwise.                                   *)
(***************************************************************************)
C2_OutcomesEqualReadPlusForwarded ==
    (ReturnedStats /\ ~ctxDone) =>
        stats.SecretsWritten + stats.SecretsSkipped + stats.Errors
            = stats.SecretsRead + Forwarded

\* a non-cancelled run returned after one item was read and written and an
\* enumeration failure was forwarded
C2_Witness ==
    /\ ReturnedStats
    /\ ~ctxDone
    /\ prod.exit = "error"
    /\ stats.SecretsRead = 1
    /\ stats.SecretsWritten = 1
    /\ stats.Errors = 1

(***************************************************************************)
(* C3  After a cancellation in the middle of a run, no reachable state     *)
(* leaves the producer blocked forever on the transfer channel: it is      *)
(* never waiting to send on a full channel that no worker will receive     *)
(* from any more.                                                          *)
(***************************************************************************)
C3_ProducerNeverStuck ==
    ~ ( /\ ctxDone
        /\ main.pc = "range"
        /\ prod.pc = "send"
        /\ Len(secretsChan.buf) = Cap
        /\ WorkersDone )

(***************************************************************************)
(* C4  Whenever the producer or a worker stopped on the cancellation and   *)
(* Sync returns, the returned Errors counter is at least 1.                *)
(***************************************************************************)
C4_CancellationCounted ==
    (ReturnedStats /\ Pipeline /\ ctxDone /\ prod.exit = "cancel") => stats.Errors >= 1

(***************************************************************************)
(* C5  With no cancellation, a directory or wildcard run that has started  *)
(* its pipeline eventually returns its statistics, whatever enumeration,   *)
(* existence-check and write failures occur, with the transfer channel     *)
(* closed, every worker returned and the error channel closed and empty.   *)
(***************************************************************************)
C5_PipelineReturnsStats ==
    Pipeline ~> ( /\ ReturnedStats
                  /\ secretsChan.closed
                  /\ WorkersDone
                  /\ errChan.closed
                  /\ errChan.buf = <<>> )

\* a non-cancelled pipeline run returned after two store failures that were
\* in flight at the same time
C5_Witness ==
    /\ ReturnedStats
    /\ Pipeline
    /\ ~ctxDone
    /\ failures = 2
    /\ stats.Errors = 2

(***************************************************************************)
(* C6  Sync never returns a hard error after an individual item failed its *)
(* destination existence check or its write.                               *)
(***************************************************************************)
C6_ItemFailureIsNotHard ==
    ret = "error" => \A p \in DOMAIN log : log[p] \notin {<<"checkerr">>, <<"writeerr">>}

(***************************************************************************)
(* C7  In a non-cancelled directory or wildcard run, when a walkSecrets    *)
(* call sent a read, list or directory-check error, the statistics Sync    *)
(* returns have Errors >= 1.                                               *)
(***************************************************************************)
C7_TraversalErrorCounted ==
    (ReturnedStats /\ Pipeline /\ ~ctxDone /\ \E b \in DOMAIN walk : walk[b].pc = "failed")
        => stats.Errors >= 1

(***************************************************************************)
(* C8  With overwrite disabled, every item whose destination path held a   *)
(* secret before the run ends as skipped and nothing else.                 *)
(***************************************************************************)
C8_ExistingAlwaysSkipped ==
    ~cfg.Overwrite =>
        \A p \in DOMAIN log : DestPath(p) \in DOMAIN dest0 => log[p] = <<"skipped">>

(***************************************************************************)
(* C8 as amended: with overwrite disabled, every item whose destination    *)
(* path held a secret before the run and whose existence check succeeds    *)
(* ends as skipped and nothing else, SecretsSkipped counts exactly those   *)
(* items, and no path that held a secret before the run is ever passed to  *)
(* the destination write or changes its value; an item whose existence     *)
(* check fails is counted as a failure instead.                            *)
(***************************************************************************)
C8_ExistingSkippedWhenChecked ==
    ~cfg.Overwrite =>
        /\ \A p \in DOMAIN log :
              DestPath(p) \in DOMAIN dest0 => log[p] \in {<<"skipped">>, <<"checkerr">>}
        /\ stats.SecretsSkipped = Cardinality(With("skipped"))
        /\ \A p \in With("skipped") : DestPath(p) \in DOMAIN dest0
        /\ \A q \in DOMAIN dest0 : q \notin destWrites /\ dest[q] = dest0[q]

\* a pipeline run without overwrite returned after a worker skipped the item
\* whose destination existed and another item was written
C8_Witness ==
    /\ ~cfg.Overwrite
    /\ ReturnedStats
    /\ Pipeline
    /\ \E p \in With("skipped") : DestPath(p) \in DOMAIN dest0
    /\ stats.SecretsSkipped = 1
    /\ stats.SecretsWritten = 1

(***************************************************************************)
(* C9  With overwrite enabled and dry-run disabled, every item whose       *)
(* destination path held a secret before the run and whose write succeeded *)
(* has the source secret's data at that path, and SecretsWritten counts    *)
(* one for each written item.                                              *)
(***************************************************************************)
C9_OverwriteStoresSourceData ==
    (cfg.Overwrite /\ ~cfg.DryRun) =>
        /\ \A p \in With("written") :
              DestPath(p) \in DOMAIN dest0 =>
                 /\ DestPath(p) \in destWrites
                 /\ dest[DestPath(p)] = source.secrets[p]
        /\ stats.SecretsWritten = Cardinality(With("written"))

\* a run with overwrite returned after it replaced the old value of an
\* existing destination by the source's data
C9_Witness ==
    /\ cfg.Overwrite
    /\ ~cfg.DryRun
    /\ ReturnedStats
    /\ \E p \in With("written") :
          /\ DestPath(p) \in DOMAIN dest0
          /\ dest0[DestPath(p)] # source.secrets[p]
          /\ dest[DestPath(p)] = source.secrets[p]

(***************************************************************************)
(* C10  With dry-run enabled, in every mode the destination write is never *)
(* called and the destination store stays as it was before the run, while  *)
(* every item that was not skipped and whose existence check succeeded is  *)
(* counted once in SecretsWritten.                                         *)
(***************************************************************************)
C10_DryRunWritesNothing ==
    cfg.DryRun =>
        /\ destWrites = {}
        /\ dest = dest0
        /\ \A p \in DOMAIN log : log[p] \in {<<"written">>, <<"skipped">>, <<"checkerr">>}
        /\ stats.SecretsWritten = Cardinality(With("written"))

\* a dry run of a directory returned with both leaves counted as written
C10_Witness ==
    /\ cfg.DryRun
    /\ ReturnedStats
    /\ main.mode = "dir"
    /\ stats.SecretsWritten = 2
    /\ dest = dest0

\* the source path of the run is a wildcard pattern
Wildcard == Contains(cfg.SourcePath, <<"*">>)

\* the source is a directory and recursive is unset
NoRecursive == ~Wildcard /\ HasListing(source, cfg.SourcePath) /\ ~cfg.Recursive

\* the single source path holds nothing
AbsentSource ==
    ~Wildcard /\ ~HasListing(source, cfg.SourcePath) /\ ~HasSecret(source, cfg.SourcePath)

\* the wildcard pattern matches nothing, however the expansion is scheduled
NoMatch ==
    /\ Wildcard
    /\ \A o \in ExpandWildcardPath(source, cfg.SourcePath, FALSE) : ~o.err /\ o.paths = <<>>

\* Sync returned because the wildcard expansion or the directory check of
\* the source path failed
SetupCallFailed == main.err \in {"expand", "isdir"}

ItemFailures == With("checkerr") \cup With("writeerr")

(***************************************************************************)
(* C12  In directory and wildcard modes a failing existence check or write *)
(* of an item stops nothing and counts once: a worker returns only when    *)
(* the transfer channel is closed and empty (or the context is cancelled), *)
(* and when Sync returns every item has exactly one outcome, Errors is the *)
(* number of failed items (plus a forwarded enumeration failure) and, in a *)
(* run that was not cancelled, every item that was read has its outcome,   *)
(* written or skipped for all that did not fail themselves.                *)
(***************************************************************************)
C12_ItemFailureIsIsolated ==
    /\ \A w \in BagToSet(workers) :
          w.pc = "done" => ctxDone \/ (secretsChan.closed /\ secretsChan.buf = <<>>)
    /\ (ReturnedStats /\ Pipeline) =>
          /\ \A p \in DOMAIN log : Len(log[p]) = 1
          /\ stats.Errors = Cardinality(ItemFailures) + Forwarded
          /\ ~ctxDone =>
                /\ Cardinality(DOMAIN log) = stats.SecretsRead
                /\ DOMAIN log \ ItemFailures = With("written") \cup With("skipped")
                /\ Cardinality(DOMAIN log \ ItemFailures)
                      = stats.SecretsWritten + stats.SecretsSkipped

\* a non-cancelled run with one worker returned after one item failed and
\* the other was written
C12_Witness ==
    /\ ReturnedStats
    /\ Pipeline
    /\ ~ctxDone
    /\ cfg.ParallelWorkers = 1
    /\ Cardinality(ItemFailures) = 1
    /\ stats.Errors = 1
    /\ stats.SecretsWritten = 1

\* the leaves a directory run skips: their destination exists and overwrite is unset
SkippedLeaves == { p \in Leaves : DestPath(p) \in DOMAIN dest0 /\ ~cfg.Overwrite }

\* the counters of the directory run that handles every leaf, without failure
FullCopyStats ==
    [SecretsRead    |-> Cardinality(Leaves),
     SecretsWritten |-> Cardinality(Leaves \ SkippedLeaves),
     SecretsSkipped |-> Cardinality(SkippedLeaves),
     Errors         |-> 0]

(***************************************************************************)
(* C13  For a fixed source tree, destination and configuration, with no    *)
(* store failure and no cancellation, the four counters Sync returns in    *)
(* directory mode are the same in every execution: those of the run that   *)
(* handles every leaf, which is one of the executions.                     *)
(***************************************************************************)
C13_CountersAreDeterministic ==
    (ReturnedStats /\ main.mode = "dir" /\ ~ctxDone /\ failures = 0) => stats = FullCopyStats

\* the paths at or under the source root that hold a value
ValuePaths ==
    { p \in DOMAIN source.secrets :
         p = cfg.SourcePath \/ HasPrefix(p, cfg.SourcePath \o <<"/">>) }

\* the paths of the secrets that wait in the walker's channel
Emitted == { sourceSecrets.buf[i].Path : i \in 1..Len(sourceSecrets.buf) }

(***************************************************************************)
(* C14  The recursive enumeration emits a Secret for every path under the  *)
(* root that holds a value, also for one that has children: when the walk  *)
(* of a directory run has ended without failure or cancellation and the    *)
(* producer has not received anything yet, the walker's channel holds the  *)
(* secret of every such path.                                              *)
(***************************************************************************)
C14_EveryValueIsEmitted ==
    ( /\ main.mode = "dir"
      /\ walkRoot = "done"
      /\ failures = 0
      /\ ~ctxDone
      /\ prod.pc = "select"
      /\ stats.SecretsRead = 0 ) => Emitted = ValuePaths

\* single-secret mode has returned
SingleReturned == main.mode = "single" /\ main.pc = "returned"

\* what a single-secret run returns and calls when nothing it does fails
SingleOutcome ==
    LET d    == DestPath(cfg.SourcePath)
        skip == d \in DOMAIN dest0 /\ ~cfg.Overwrite
    IN  /\ ret = "stats"
        /\ stats.SecretsRead = 1
        /\ stats.Errors = 0
        /\ stats.SecretsSkipped = (IF skip THEN 1 ELSE 0)
        /\ stats.SecretsWritten = (IF skip THEN 0 ELSE 1)
        /\ DOMAIN log = {cfg.SourcePath}
        /\ destChecks = {d}
        /\ destWrites = (IF skip \/ cfg.DryRun THEN {} ELSE {d})

C16_RootMapsToDestRoot ==
    (calc.fn = "ManagerTransformPath" /\ calc.sourcePath = cfg.SourcePath) =>
        calc.out = cfg.DestinationPath

\* destRoot without its trailing separator
NoTrailingSlash(destRoot) ==
    IF destRoot # <<>> /\ destRoot[Len(destRoot)] = "/"
    THEN SubSeq(destRoot, 1, Len(destRoot) - 1)
    ELSE destRoot

Marker == <<"/", "d", "a", "t", "a", "/">>

\* the engine name of a path: its first segment
Engine(path) == Split(path)[1]

(***************************************************************************)
(* C18  When destRoot does not carry the "/data/" marker, the path         *)
(* transformer inserts it with the engine name of the source path: for a   *)
(* source under engine E the destination path is E + "/data/" + destRoot + *)
(* "/" + rel, for every engine name E.                                     *)
(***************************************************************************)
C18_MarkerUsesSourceEngine ==
    \A rel \in Rels :
        ( /\ calc.fn \in {"transformPath", "ManagerTransformPath"}
          /\ Contains(cfg.SourcePath, Marker)
          /\ ~Contains(cfg.DestinationPath, Marker)
          /\ calc.sourcePath = cfg.SourcePath \o <<"/">> \o rel ) =>
            calc.out = Engine(cfg.SourcePath) \o Marker
                           \o NoTrailingSlash(cfg.DestinationPath) \o <<"/">> \o rel

\* the pattern's only glob token is in its last segment
GlobInLastOnly(pattern) ==
    LET parts == Split(pattern)
    IN  /\ Len(parts) > 1
        /\ Contains(parts[Len(parts)], <<"*">>)
        /\ \A i \in 1..(Len(parts) - 1) : ~Contains(parts[i], <<"*">>)

\* the directory the pattern lists and the glob segment it matches against
Prefix(pattern) == Join(SubSeq(Split(pattern), 1, Len(Split(pattern)) - 1))
Glob(pattern)   == Split(pattern)[Len(Split(pattern))]

\* the names listed under a directory
Listed(store, dir) == { ListSecrets(store, dir)[i] : i \in 1..Len(ListSecrets(store, dir)) }

\* every listed child of the directory is a leaf
ChildrenAreLeaves(store, dir) ==
    \A item \in Listed(store, dir) : ~HasListing(store, dir \o <<"/">> \o item)

\* the paths a call returned
PathsOf(out) == { out.paths[i] : i \in 1..Len(out.paths) }

\* an expansion was called, on the vault client or on the mock client
Expanded == calc.fn \in {"ExpandWildcardPath", "MockExpandWildcardPath"}

(***************************************************************************)
(* C19  For a pattern whose only glob token is in its last segment, when   *)
(* every listed child of the prefix directory is a leaf (and no store call *)
(* fails), ExpandWildcardPath returns no error and exactly the paths       *)
(* prefix/item of the listed items that match the glob segment, each once. *)
(***************************************************************************)
C19_ExpansionIsTheMatchingSiblings ==
    ( /\ Expanded
      /\ GlobInLastOnly(calc.pattern)
      /\ ChildrenAreLeaves(source, Prefix(calc.pattern))
      /\ ~calc.out.failed ) =>
        /\ ~calc.out.err
        /\ PathsOf(calc.out) =
              { Prefix(calc.pattern) \o <<"/">> \o item :
                  item \in { i \in Listed(source, Prefix(calc.pattern)) :
                                Match(Glob(calc.pattern), i) } }
        /\ Len(calc.out.paths) = Cardinality(PathsOf(calc.out))

MatchedChildren(store, pattern) ==
    { Prefix(pattern) \o <<"/">> \o item :
        item \in { i \in Listed(store, Prefix(pattern)) : Match(Glob(pattern), i) } }

(***************************************************************************)
(* C21  When the glob is in the last pattern segment and a matched item is *)
(* a directory, the result of ExpandWildcardPath contains the path of      *)
(* every leaf secret transitively under that directory, in every           *)
(* interleaving of the enumeration it delegates to, when no store call     *)
(* fails.                                                                  *)
(***************************************************************************)
C21_MatchedDirectoryGivesAllLeaves ==
    ( /\ calc.fn = "ExpandWildcardPath"
      /\ GlobInLastOnly(calc.pattern)
      /\ ~calc.out.failed ) =>
        \A dir \in MatchedChildren(source, calc.pattern) :
            HasListing(source, dir) =>
                \A leaf \in WalkLeaves(source, dir) : leaf \in PathsOf(calc.out)

\* the pattern is a literal directory, a glob segment and a literal last segment
GlobThenLiteral(pattern) ==
    LET parts == Split(pattern)
    IN  /\ Len(parts) > 2
        /\ Contains(parts[Len(parts) - 1], <<"*">>)
        /\ \A i \in 1..Len(parts) : i # Len(parts) - 1 => ~Contains(parts[i], <<"*">>)

\* the directory such a pattern lists, its glob segment and its last segment
HeadOf(pattern)  == Join(SubSeq(Split(pattern), 1, Len(Split(pattern)) - 2))
GlobOf(pattern)  == Split(pattern)[Len(Split(pattern)) - 1]
TailOf(pattern)  == Split(pattern)[Len(Split(pattern))]

\* the listed children of that directory that match the glob segment, as paths
GlobMatches(store, pattern) ==
    { HeadOf(pattern) \o <<"/">> \o item :
        item \in { i \in Listed(store, HeadOf(pattern)) : Match(GlobOf(pattern), i) } }

(***************************************************************************)
(* C22  When pattern segments remain after the glob segment and a matched  *)
(* item is a leaf, not a directory, that match contributes no path to the  *)
(* result of ExpandWildcardPath.                                           *)
(***************************************************************************)
C22_LeafMatchWithTailIsIgnored ==
    ( /\ calc.fn = "ExpandWildcardPath"
      /\ GlobThenLiteral(calc.pattern)
      /\ ~calc.out.failed ) =>
        \A m \in GlobMatches(source, calc.pattern) :
            ~HasListing(source, m) =>
                \A path \in PathsOf(calc.out) : ~HasPrefix(path, m \o <<"/">>) /\ path # m

(***************************************************************************)
(* C23  For a pattern with a glob segment followed by a literal tail,      *)
(* prefix/*/database, where the matching children are directories,         *)
(* ExpandWildcardPath returns exactly the paths prefix/c/database for the  *)
(* children c of prefix that match the glob and under which a secret named *)
(* database exists; a matching child directory that has no such secret     *)
(* contributes nothing.                                                    *)
(***************************************************************************)
C23_TailIsResolvedUnderMatches ==
    ( /\ calc.fn = "ExpandWildcardPath"
      /\ GlobThenLiteral(calc.pattern)
      /\ \A m \in GlobMatches(source, calc.pattern) : HasListing(source, m)
      /\ ~calc.out.failed ) =>
        PathsOf(calc.out) =
            { m \o <<"/">> \o TailOf(calc.pattern) :
                m \in { c \in GlobMatches(source, calc.pattern) :
                           HasSecret(source, c \o <<"/">> \o TailOf(calc.pattern)) } }

\* destRoot, then "/", then the part of a matched path that follows the
\* literal directory prefix of the pattern
WildcardDest(path) ==
    NoTrailingSlash(cfg.DestinationPath) \o <<"/">>
        \o TrimPrefix(path, Prefix(cfg.SourcePath) \o <<"/">>)

(***************************************************************************)
(* C24  In wildcard mode the destination of a matched source path is       *)
(* destRoot + "/" + the part of the path that follows the pattern's        *)
(* literal directory prefix: every destination path the engine checks or   *)
(* writes is that path of a source secret.                                 *)
(***************************************************************************)
C24_WildcardDestFollowsPrefix ==
    (main.mode = "wild" /\ GlobInLastOnly(cfg.SourcePath)) =>
        \A destPath \in destChecks \cup destWrites :
            \E path \in DOMAIN source.secrets : destPath = WildcardDest(path)

\* the segments of a source path after its engine and, when the second
\* segment is the marker, after the marker
HasMarker(sourcePath) == Len(Split(sourcePath)) > 1 /\ Split(sourcePath)[2] = <<"d", "a", "t", "a">>

Namespace(sourcePath) ==
    SubSeq(Split(sourcePath), IF HasMarker(sourcePath) THEN 3 ELSE 2, Len(Split(sourcePath)))

Configured == calc.fn = "NewConfig" /\ calc.out.err = ""

\* the first value that is set, in the order of the claimed precedence
RECURSIVE FirstGiven(_)
FirstGiven(values) ==
    IF values = <<>> THEN ""
    ELSE IF values[1] # "" THEN values[1]
    ELSE FirstGiven(Tail(values))

(***************************************************************************)
(* C26  For every setting, NewConfig uses the command-line value when one  *)
(* is given, otherwise the environment variable when it is set (the        *)
(* variable of the side, then the shared VAULT_ADDR / VAULT_TOKEN),        *)
(* otherwise the configuration-file value, otherwise the built-in default. *)
(***************************************************************************)
C26_FlagThenEnvThenFile ==
    Configured =>
        /\ calc.out.cfg.SourceAddr =
              FirstGiven(<<calc.args.sourceAddr, calc.env.VAULT_SOURCE_ADDR, calc.env.VAULT_ADDR,
                           calc.file.SourceAddress, DefaultAddr>>)
        /\ calc.out.cfg.SourceToken =
              FirstGiven(<<calc.args.sourceToken, calc.env.VAULT_SOURCE_TOKEN, calc.env.VAULT_TOKEN,
                           calc.file.SourceToken>>)
        /\ calc.out.cfg.DestAddr =
              FirstGiven(<<calc.args.destAddr, calc.env.VAULT_DEST_ADDR, calc.env.VAULT_ADDR,
                           calc.file.DestinationAddress>>)
        /\ calc.out.cfg.DestToken =
              FirstGiven(<<calc.args.destToken, calc.env.VAULT_DEST_TOKEN, calc.env.VAULT_TOKEN,
                           calc.file.DestinationToken>>)
        /\ calc.out.cfg.Recursive = (calc.args.recursive \/ calc.file.Recursive)
        /\ calc.out.cfg.DryRun = (calc.args.dryRun \/ calc.file.DryRun)
        /\ calc.out.cfg.Overwrite = (calc.args.overwrite \/ calc.file.Overwrite)
        /\ calc.out.cfg.Verbose = (calc.args.verbose \/ calc.file.Verbose)
        /\ calc.out.cfg.ParallelWorkers =
              IF calc.args.parallelWorkers # DefaultParallel THEN calc.args.parallelWorkers
              ELSE IF calc.file.Parallel # 0 THEN calc.file.Parallel
              ELSE DefaultParallel

(***************************************************************************)
(* C27  NewConfig never returns a configuration whose ParallelWorkers is   *)
(* below 1 or whose source or destination path is empty.                   *)
(***************************************************************************)
C27_ConfigIsValid ==
    Configured =>
        /\ calc.out.cfg.ParallelWorkers >= 1
        /\ calc.out.cfg.SourcePath # <<>>
        /\ calc.out.cfg.DestinationPath # <<>>

\* the outcomes that end the handling of a secret
Terminal == { <<"written">>, <<"skipped">>, <<"checkerr">>, <<"writeerr">> }

\* the producer has forwarded an enumeration failure and stopped
ProducerFailed == prod.exit = "error"

\* at the return of a non-cancelled run whose producer stopped on a failure,
\* every secret counted in SecretsRead has one terminal outcome and every
\* recorded failure was counted
QueuedItemsAreDrained ==
    (ReturnedStats /\ ~ctxDone /\ ProducerFailed) =>
        /\ Cardinality(DOMAIN log) = stats.SecretsRead
        /\ \A path \in DOMAIN log : log[path] \in Terminal
        /\ stats.SecretsWritten = Cardinality(With("written"))
        /\ stats.SecretsSkipped = Cardinality(With("skipped"))
        /\ stats.Errors = Cardinality(With("checkerr") \cup With("writeerr")) + 1

\* a step taken after the producer forwarded the failure leaves SecretsRead alone
NoReadAfterFailure == ProducerFailed => stats'.SecretsRead = stats.SecretsRead

(***************************************************************************)
(* C28  In a non-cancelled run, after the producer has stopped on an       *)
(* enumeration failure, every secret already counted in SecretsRead is     *)
(* still taken by a worker and reaches a terminal outcome (written,        *)
(* skipped or a recorded failure) before Sync returns, and SecretsRead is  *)
(* never incremented again after the producer has forwarded the failure.   *)
(***************************************************************************)
C28_PartialProgressIsKept == []QueuedItemsAreDrained /\ [][NoReadAfterFailure]_vars

\* a non-cancelled run returned after the producer stopped on a failure, with
\* one secret read before the failure and written
C28_Witness ==
    /\ ReturnedStats
    /\ ~ctxDone
    /\ ProducerFailed
    /\ stats.SecretsRead = 1
    /\ With("written") # {}
    /\ dest # dest0

\* every walkSecrets call of the current enumeration has returned
BranchesDone == \A b \in DOMAIN walk : Returned(b)

\* a step that sends on a channel finds it open
NoSendOnClosed ==
    /\ Len(secretsChan'.buf) > Len(secretsChan.buf) => ~secretsChan.closed
    /\ Len(errChan'.buf) > Len(errChan.buf) => ~errChan.closed
    /\ Len(sourceSecrets'.buf) > Len(sourceSecrets.buf) => ~sourceSecrets.closed
    /\ Len(sourceErrChan'.buf) > Len(sourceErrChan.buf) => ~sourceErrChan.closed

\* a step that closes a channel is the step of the task that owns the close,
\* taken when the tasks it waits for have finished
ClosedByOwner ==
    /\ (~secretsChan.closed /\ secretsChan'.closed) => (prod.pc # "done" /\ prod'.pc = "done")
    /\ (~errChan.closed /\ errChan'.closed) =>
          (closer # "done" /\ closer' = "done" /\ prod.pc = "done" /\ WorkersDone)
    /\ (~sourceErrChan.closed /\ sourceErrChan'.closed) =>
          (walkRoot = "walk" /\ walkRoot' = "closeSecrets" /\ BranchesDone)
    /\ (~sourceSecrets.closed /\ sourceSecrets'.closed) =>
          (walkRoot = "closeSecrets" /\ walkRoot' = "done" /\ BranchesDone)

\* a task that runs its close finds the channel open
NoCloseOfClosed ==
    /\ (prod.pc # "done" /\ prod'.pc = "done") => ~secretsChan.closed
    /\ (closer # "done" /\ closer' = "done") => ~errChan.closed
    /\ (walkRoot = "walk" /\ walkRoot' = "closeSecrets") => ~sourceErrChan.closed
    /\ (walkRoot = "closeSecrets" /\ walkRoot' = "done") => ~sourceSecrets.closed

(***************************************************************************)
(* C29  No task ever sends on, or closes again, a channel that is already  *)
(* closed: the transfer channel is closed once by the producer after its   *)
(* last send, the engine's error channel is closed once and only after the *)
(* producer and all workers have finished, and the walker's two channels   *)
(* are closed once and only after all of its branch tasks have finished.   *)
(***************************************************************************)
C29_ChannelsClosedOnceAfterSenders ==
    [][NoSendOnClosed /\ ClosedByOwner /\ NoCloseOfClosed]_vars

\* a run returned with its four channels closed after secrets went through
\* the walker's and the engine's channels and a failure through the error channel
C29_Witness ==
    /\ ReturnedStats
    /\ secretsChan.closed
    /\ errChan.closed
    /\ sourceSecrets.closed
    /\ sourceErrChan.closed
    /\ stats.SecretsRead = 2
    /\ stats.Errors = 1

\* the non-directory paths reachable from the root through directory listings
NonDirectoryPaths == WalkLeaves(source, cfg.SourcePath)

\* the paths of the secrets the consumer has taken from the walker's channel:
\* held by the producer, in the transfer channel, held by a worker, or logged
Taken ==
    (IF prod.secret = <<>> THEN {} ELSE {prod.secret.Path})
    \cup { secretsChan.buf[i].Path : i \in 1..Len(secretsChan.buf) }
    \cup { w.secret.Path : w \in { v \in BagToSet(workers) : v.secret # <<>> } }
    \cup DOMAIN log

\* how many secrets GetAllSecrets has sent: those still in its channel and
\* those the consumer received (syncDirectory counts each receipt)
SentCount == Len(sourceSecrets.buf) + stats.SecretsRead

\* a directory run in which no store call failed and the context is live
CleanWalk == main.mode = "dir" /\ failures = 0 /\ ~ctxDone

\* GetAllSecrets' goroutine has run one of its deferred closes
WalkClosing == sourceErrChan.closed \/ sourceSecrets.closed

StartsStoreCall ==
    { b \in DOMAIN walk : /\ walk[b].pc \in {"list", "read"}
                          /\ b \in DOMAIN walk'
                          /\ walk'[b].pc # walk[b].pc }

\* the call goes to send the cancellation failure and no call is added
AbortsOnCancel(b) ==
    /\ walk'[b].pc = "errsend"
    /\ walk'[b].err = "cancel"
    /\ DOMAIN walk' = DOMAIN walk

(***************************************************************************)
(* C31  Every blocking step of a walker branch is preceded by its own      *)
(* cancellation check: once the cancellation signal has been raised, a     *)
(* branch that comes to a list or a read of the source store does not      *)
(* perform it; it goes to send a cancellation failure and spawns no child. *)
(***************************************************************************)
C31_EveryStepChecksCancellation ==
    [][ctxDone => \A b \in StartsStoreCall : AbortsOnCancel(b)]_vars

(***************************************************************************)
(* The runs that the caller may cancel, under the Go scheduler: every      *)
(* goroutine that can take a step is run, and the producer's select takes  *)
(* a case that stays ready, its ctx.Done() case included.                  *)
(***************************************************************************)
FairnessWithCancel ==
    /\ Fairness
    /\ WF_vars(Producer)

LiveCancelSpec == Init /\ [][Next]_vars /\ FairnessWithCancel

(***************************************************************************)
(* C32  In every engine run each walker task eventually terminates and the *)
(* walker's two channels are eventually closed, also when two or more      *)
(* branches report a failure or observe the cancellation after the         *)
(* producer has stopped receiving: an enumeration that was started ends    *)
(* with every walkSecrets call returned and both channels closed.          *)
(***************************************************************************)
C32_WalkerAlwaysEnds ==
    (walkRoot = "walk") ~> ( /\ walkRoot = "done"
                             /\ BranchesDone
                             /\ sourceSecrets.closed
                             /\ sourceErrChan.closed )

\* how many workers of the pool are at one of these places of writeWorker
CountAt(pool, pcs) ==
    BagCardinality([w \in { v \in BagToSet(pool) : v.pc \in pcs } |-> pool[w]])

\* the workers that hold a secret whose cancellation check they have passed
PastCheck(pool) == CountAt(pool, {"exists", "write"})

\* a step of a cancelled run: no worker passes the check with a secret, a
\* worker that leaves the check returns, and a worker that calls WriteSecret
\* spends the one pass it had
CancelledStep ==
    /\ PastCheck(workers') <= PastCheck(workers)
    /\ CountAt(workers', {"ctx"}) < CountAt(workers, {"ctx"}) =>
          CountAt(workers', {"done"}) = CountAt(workers, {"done"}) + 1
    /\ CountAt(workers', {"write"}) < CountAt(workers, {"write"}) =>
          PastCheck(workers') = PastCheck(workers) - 1

(***************************************************************************)
(* C33  After the cancellation signal has been raised each worker starts   *)
(* at most one further destination write, for the item whose cancellation  *)
(* check it had already passed, so at most parallelism writes begin after  *)
(* cancellation; a secret dequeued after cancellation is never written.    *)
(* The workers past their check are never more than the pool, after the    *)
(* cancellation their number never grows, each write takes one of them     *)
(* away, and a worker that checks the signal with a secret in hand returns.*)
(***************************************************************************)
C33_OneWritePerWorkerAfterCancel ==
    /\ [](PastCheck(workers) <= cfg.ParallelWorkers)
    /\ [][ctxDone => CancelledStep]_vars

\* after the cancellation one worker is about to write the secret it had
\* checked before, and the other has returned with the channel still open
C33_Witness ==
    /\ ctxDone
    /\ ~secretsChan.closed
    /\ CountAt(workers, {"write"}) = 1
    /\ CountAt(workers, {"done"}) = 1

\* Sync has returned from syncDirectory or syncMultiplePaths
PipelineReturned == Pipeline /\ main.pc = "returned"

(***************************************************************************)
(* C34  When Sync returns from directory or wildcard mode, the producer    *)
(* and every worker have terminated: after the return no destination       *)
(* check or write happens, the destination does not change and none of the *)
(* four counters changes.                                                  *)
(***************************************************************************)
C34_NothingRunsAfterReturn ==
    /\ [](PipelineReturned => (prod.pc = "done" /\ WorkersDone /\ closer = "done"))
    /\ [][PipelineReturned => /\ stats' = stats
                              /\ dest' = dest
                              /\ destWrites' = destWrites
                              /\ destChecks' = destChecks
                              /\ workers' = workers
                              /\ prod' = prod]_vars

\* a pipeline run returned after its workers wrote two destination paths
C34_Witness ==
    /\ PipelineReturned
    /\ Cardinality(destWrites) = 2
    /\ stats.SecretsWritten = 2
    /\ WorkersDone
    /\ prod.pc = "done"

\* how many times a source path is held by a worker
HeldBy(pool, path) ==
    BagCardinality([w \in { v \in BagToSet(pool) : v.secret # <<>> /\ v.secret.Path = path }
                       |-> pool[w]])

\* how many times a source path is in the transfer channel, with a worker,
\* or has been given an outcome
Occurrences(path) ==
    Cardinality({ i \in 1..Len(secretsChan.buf) : secretsChan.buf[i].Path = path })
    + HeldBy(workers, path)
    + Len(Logged(path))

\* the source paths the run has enumerated so far
Enumerated == Emitted \cup Taken

\* a step in which a worker calls WriteSecret
WriteStep == CountAt(workers', {"write"}) < CountAt(workers, {"write"})

\* a step that takes a secret from the transfer channel
TakeStep == secretsChan.buf # <<>> /\ secretsChan'.buf = Tail(secretsChan.buf)

(***************************************************************************)
(* C35  In any directory or wildcard run over a store whose listings       *)
(* contain no duplicates, each secret put on the transfer channel is taken *)
(* by exactly one worker and no destination path is written more than      *)
(* once: distinct enumerated source paths are mapped to distinct           *)
(* destination paths.                                                      *)
(***************************************************************************)
C35_OneWorkerOneWritePerSecret ==
    /\ [](Pipeline =>
            /\ \A p \in Enumerated : Occurrences(p) <= 1
            /\ \A p, q \in Enumerated : p # q => DestPath(p) # DestPath(q))
    /\ [][Pipeline =>
            /\ TakeStep => HeldBy(workers', Head(secretsChan.buf).Path) = 1
            /\ WriteStep => Cardinality(destWrites') = Cardinality(destWrites) + 1]_vars

\* two workers are about to write the two secrets of a directory run, each
\* to its own destination path
C35_Witness ==
    /\ main.mode = "dir"
    /\ CountAt(workers, {"write"}) = 2
    /\ HeldBy(workers, <<"s", "/", "a">>) = 1
    /\ HeldBy(workers, <<"s", "/", "d", "/", "b">>) = 1
    /\ destWrites = {}

\* the outcomes logged for a source path
OutcomesOf(path) == { Logged(path)[i] : i \in 1..Len(Logged(path)) }

\* the source paths counted as written or as skipped
Settled == { p \in DOMAIN log : OutcomesOf(p) \cap {"written", "skipped"} # {} }

(***************************************************************************)
(* C36  In every reachable state of a run, cancelled or not,               *)
(* SecretsWritten + SecretsSkipped <= SecretsRead: a secret is counted as  *)
(* read before it can be counted as written or skipped, and no secret is   *)
(* counted as both written and skipped.                                    *)
(***************************************************************************)
C36_WrittenPlusSkippedAtMostRead ==
    /\ stats.SecretsWritten + stats.SecretsSkipped <= stats.SecretsRead
    /\ stats.SecretsWritten + stats.SecretsSkipped = Cardinality(Settled)
    /\ \A p \in DOMAIN log : ~({"written", "skipped"} \subseteq OutcomesOf(p))

\* a cancelled directory run that had counted two secrets as read, one as
\* skipped and one as written
C36_Witness ==
    /\ ctxDone
    /\ Pipeline
    /\ stats.SecretsRead = 2
    /\ stats.SecretsSkipped = 1
    /\ stats.SecretsWritten = 1

\* BatchWriteSecrets was called and its error channel was closed
BatchDone == calc.fn = "BatchWriteSecrets"

(***************************************************************************)
(* C37  Within one BatchWriteSecrets call, two secrets with different      *)
(* source paths are never written to the same destination path:            *)
(* TransformPath maps distinct source paths to distinct destination paths  *)
(* for a fixed destination root, so no secret of the batch overwrites      *)
(* another.                                                                *)
(***************************************************************************)
C37_BatchWritesDistinctPaths ==
    BatchDone =>
        \A i, j \in 1..Len(calc.out.writes) :
            calc.secrets[i].Path # calc.secrets[j].Path =>
                calc.out.writes[i] # calc.out.writes[j]

====
